---- MODULE Spec2Model ----
(***************************************************************************)
(* The Node / NodeTree addressing layer of zhinst-toolkit                  *)
(* (src/src/zhinst/toolkit/nodetree/nodetree.py and node.py) as a state    *)
(* machine: one registry (NodeTree) over a transport (Connection), driven  *)
(* by a caller that gets and sets Nodes, opens and leaves set_transaction  *)
(* scopes and patches descriptors with update_node.                        *)
(*                                                                         *)
(* Python strings are sequences of one-character strings, so that split,   *)
(* join, rstrip, lower and fnmatch are computed character by character.    *)
(* Python values are tagged tuples: <<"i", n>> an int, <<"f", n>> a float  *)
(* (n standing for n.0), <<"s", text>> a str, <<"None">> None.             *)
(***************************************************************************)
EXTENDS Integers, Sequences, FiniteSets, TLC

\* ------------------------------------------------------------------ bounds

\* Pending writes a transaction buffer holds at most.
MaxQueue == 2
\* set_transaction scopes the caller has entered and not yet left.
MaxDepth == 2
\* The count of transport writes inside a scope stops here.
WritesCap == 2
\* Nested Node calls before the interpreter raises RecursionError.
MaxRecursion == 3
\* Scopes the caller nests under SpecRead.
MaxReadDepth == 1

\* ----------------------------------------------------------------- strings

Slash == "/"

Quote == "\""

None == <<"None">>

IntV(n) == <<"i", n>>

FloatV(n) == <<"f", n>>

StrV(s) == <<"s", s>>

RECURSIVE Concat(_)
\* "".join(list)
Concat(list) ==
  IF list = <<>> THEN <<>> ELSE Head(list) \o Concat(Tail(list))

RECURSIVE join(_)
\* "/".join(list)
join(list) ==
  IF list = <<>> THEN <<>>
  ELSE IF Len(list) = 1 THEN Head(list)
  ELSE Head(list) \o <<Slash>> \o join(Tail(list))

RECURSIVE split(_)
\* str.split("/"): always at least one element
split(s) ==
  IF \A i \in 1..Len(s) : s[i] # Slash THEN <<s>>
  ELSE LET k == CHOOSE i \in 1..Len(s) :
                   s[i] = Slash /\ \A j \in 1..(i - 1) : s[j] # Slash
       IN <<SubSeq(s, 1, k - 1)>> \o split(SubSeq(s, k + 1, Len(s)))

RECURSIVE rstrip(_)
\* str.rstrip("_")
rstrip(s) ==
  IF s # <<>> /\ s[Len(s)] = "_" THEN rstrip(SubSeq(s, 1, Len(s) - 1)) ELSE s

LowerChar(c) ==
  CASE c = "A" -> "a" [] c = "B" -> "b" [] c = "D" -> "d" [] c = "I" -> "i"
    [] c = "E" -> "e" [] c = "G" -> "g" [] c = "L" -> "l" [] c = "R" -> "r"
    [] c = "U" -> "u" [] c = "F" -> "f" [] c = "O" -> "o" [] c = "C" -> "c"
    [] c = "P" -> "p"
    [] c = "M" -> "m" [] c = "N" -> "n" [] c = "Q" -> "q" [] c = "T" -> "t"
    [] c = "S" -> "s" [] c = "V" -> "v" [] c = "W" -> "w" [] c = "X" -> "x"
    [] c = "Y" -> "y" [] c = "Z" -> "z"
    [] OTHER -> c

\* str.lower()
lower(s) == [i \in 1..Len(s) |-> LowerChar(s[i])]

\* str.startswith
startswith(s, p) == Len(p) <= Len(s) /\ SubSeq(s, 1, Len(p)) = p

\* keyword.iskeyword, over the words the alphabet of the model can spell
is_keyword(s) == s \in {<<"i", "n">>, <<"i", "s">>, <<"i", "f">>, <<"a", "s">>}

\* Index of the "]" closing the character class opened at pat[i] = "[",
\* 0 if there is none (fnmatch.translate: a leading "!" and a "]" right
\* after the bracket do not close the class).
ClassEnd(pat, i) ==
  LET j0 == IF i + 1 <= Len(pat) /\ pat[i + 1] = "!" THEN i + 2 ELSE i + 1
      j1 == IF j0 <= Len(pat) /\ pat[j0] = "]" THEN j0 + 1 ELSE j0
      ends == {j \in j1..Len(pat) : pat[j] = "]"}
  IN IF ends = {} THEN 0 ELSE CHOOSE j \in ends : \A k \in ends : j <= k

RECURSIVE MatchFrom(_, _, _, _)
\* fnmatch.fnmatchcase(name[i:], pat[j:]): "*" any run of characters (also
\* "/"), "?" one character, "[seq]" one character of seq, "[!seq]" one not in it
MatchFrom(name, i, pat, j) ==
  IF j > Len(pat) THEN i > Len(name)
  ELSE IF pat[j] = "*"
    THEN \E k \in i..(Len(name) + 1) : MatchFrom(name, k, pat, j + 1)
  ELSE IF pat[j] = "?"
    THEN i <= Len(name) /\ MatchFrom(name, i + 1, pat, j + 1)
  ELSE IF pat[j] = "[" /\ ClassEnd(pat, j) # 0
    THEN LET e == ClassEnd(pat, j)
             neg == pat[j + 1] = "!"
             members == {pat[k] : k \in (IF neg THEN j + 2 ELSE j + 1)..(e - 1)}
         IN /\ i <= Len(name)
            /\ (name[i] \in members) # neg
            /\ MatchFrom(name, i + 1, pat, e + 1)
  ELSE i <= Len(name) /\ name[i] = pat[j] /\ MatchFrom(name, i + 1, pat, j + 1)

fnmatchcase(name, pat) == MatchFrom(name, 1, pat, 1)

\* sequence filter keeping order
RECURSIVE SelectSeqBy(_, _)
SelectSeqBy(s, keep) ==
  IF s = <<>> THEN <<>>
  ELSE (IF Head(s) \in keep THEN <<Head(s)>> ELSE <<>>) \o SelectSeqBy(Tail(s), keep)

\* fnmatch.filter(names, pat): the names matching, in the order given
fnmatch_filter(names, pat) ==
  SelectSeqBy(names, {names[i] : i \in {k \in 1..Len(names) : fnmatchcase(names[k], pat)}})

Range(s) == {s[i] : i \in 1..Len(s)}

\* ---------------------------------------------------------------- registry

VARIABLES
  prefix_hide,            \* NodeTree._prefix_hide (lower case), None if not given
  prefixes_keep,          \* NodeTree._prefixes_keep, in discovery order
  first_layer,            \* NodeTree._first_layer
  flat_dict,              \* NodeTree._flat_dict: ordered <<[key, info], ...>>
  set_transaction_queue,  \* NodeTree._set_transaction_queue: None or <<"list", items>>
  partial_cache,          \* lru_cache of Node.is_partial_node, shared by equal Nodes
  store,                  \* the transport: the value at each address of the device
  connection,             \* NodeTree.connection: the operations the transport offers
  daq_server,             \* the data server: its kind and the devices connected to it
  devices,                \* Devices._devices: ordered <<[key, info], ...>> of device objects
  created,                \* the device objects constructed so far, numbered 1..created
  handed,                 \* per serial, the object the session handed out while connected
  accepted,               \* the serials connect_device has returned a device for
  depth,                  \* set_transaction scopes the caller is inside of
  last,                   \* the caller's last operation: its arguments, its outcome
                          \* and the calls it made on the transport, in order
  scope_writes,           \* history: transport writes since the innermost open
                          \* scope was entered (counted up to WritesCap)
  issued,                 \* history: the sets that returned normally in the open scope
  plain,                  \* history: the open scope saw nothing but gets and sets
                          \* of concrete Nodes since it was entered
  now,                    \* time.time(), in units of the sleep interval
  wait,                   \* the wait_for_state_change call in progress: where it
                          \* is, its locals and the history of its polls
  awg_module,             \* the AWG module of the session: the values of its
                          \* compiler/status, progress and elf/status nodes
  load                    \* the load_sequencer_program call in progress: where
                          \* it is and its locals

vars == <<prefix_hide, prefixes_keep, first_layer, flat_dict,
          set_transaction_queue, partial_cache, store, depth, last,
          scope_writes, issued, plain, now, wait, connection,
          daq_server, devices, created, handed, accepted, awg_module, load>>

\* the objects next to the node tree, which its operations leave alone
env == <<connection, daq_server, devices, created, handed, accepted, awg_module, load>>

\* a raised exception and a normal return
Raise(kind, arg) == [exc |-> kind, arg |-> arg]

Return(value) == [exc |-> "none", val |-> value]

\* dict.get(k, default) on a descriptor
InfoGet(info, k, default) == IF k \in DOMAIN info THEN info[k] ELSE default

\* dict.update(updates) on a descriptor
InfoUpdate(info, updates) ==
  [k \in DOMAIN info \cup DOMAIN updates |->
     IF k \in DOMAIN updates THEN updates[k] ELSE info[k]]

dict_keys(d) == [i \in 1..Len(d) |-> d[i].key]

dict_get(d, key) ==
  d[CHOOSE i \in 1..Len(d) : d[i].key = key].info

\* d[key] = info: in place for a key the dict has, appended otherwise
dict_setitem(d, key, info) ==
  IF key \in Range(dict_keys(d))
    THEN [i \in 1..Len(d) |-> IF d[i].key = key THEN [key |-> key, info |-> info] ELSE d[i]]
    ELSE Append(d, [key |-> key, info |-> info])

\* Node._contains_wildcards
contains_wildcards(tree) ==
  \E w \in {"*", "?", "["} : w \in Range(Concat(tree))

\* NodeTree.node_to_raw_path raises TypeError: "/".join of a list holding None
node_to_raw_path_raises(tree) ==
  /\ tree # <<>>
  /\ rstrip(tree[1]) \notin Range(prefixes_keep)
  /\ prefix_hide = None

node_to_raw_path(tree) ==
  LET node_list == [i \in 1..Len(tree) |-> rstrip(tree[i])]
  IN IF node_list = <<>> THEN <<Slash>>
     ELSE IF node_list[1] \in Range(prefixes_keep)
       THEN <<Slash>> \o join(node_list)
       ELSE <<Slash>> \o join(<<prefix_hide>> \o node_list)

raw_path_to_node(raw_path) ==
  LET s == split(raw_path)
      node_split == [i \in 1..Len(s) |-> IF is_keyword(s[i]) THEN s[i] \o <<"_">> ELSE s[i]]
  IN IF node_split[2] = prefix_hide
       THEN SubSeq(node_split, 3, Len(node_split))
       ELSE SubSeq(node_split, 2, Len(node_split))

\* NodeTree.string_to_raw_path; the ValueError is raised inside the loop
\* over the kept prefixes
string_to_raw_path(node_string) ==
  IF ~startswith(node_string, <<Slash>>) /\ prefix_hide # None /\ prefix_hide # <<>>
    THEN LET keeps == {i \in 1..Len(prefixes_keep) : startswith(node_string, prefixes_keep[i])}
             hidden == startswith(node_string, prefix_hide)
         IN IF hidden /\ prefixes_keep # <<>> /\ 1 \notin keeps
              THEN Raise("ValueError", node_string)
            ELSE IF keeps # {}
              THEN Return(<<Slash>> \o node_string)
            ELSE Return(<<Slash>> \o prefix_hide \o <<Slash>> \o node_string)
    ELSE Return(node_string)

\* NodeTree.get_node_info for a Node: a dict for one match, a list otherwise,
\* KeyError for a result that is falsy (no match, or an empty descriptor)
get_node_info(tree) ==
  IF node_to_raw_path_raises(tree) THEN Raise("TypeError", tree)
  ELSE
  LET key == node_to_raw_path(tree)
      keys == fnmatch_filter(dict_keys(flat_dict), key)
  IN IF Len(keys) = 1
       THEN IF DOMAIN dict_get(flat_dict, keys[1]) = {}
              THEN Raise("KeyError", key)
              ELSE Return(dict_get(flat_dict, keys[1]))
     ELSE IF keys = <<>> THEN Raise("KeyError", key)
     ELSE Return([i \in 1..Len(keys) |-> dict_get(flat_dict, keys[i])])

\* Node._node_information. Its lru_cache holds the descriptor object itself,
\* which update_node patches in place, so a hit reads what a lookup reads.
node_information(tree) ==
  IF contains_wildcards(tree)
    THEN IF node_to_raw_path_raises(tree) THEN Raise("TypeError", tree)
         ELSE Raise("KeyError", node_to_raw_path(tree))
    ELSE get_node_info(tree)

\* Node._is_child_node: segments compared as written, escapes included
is_child_node(tree, child) ==
  /\ Len(child) > Len(tree)
  /\ \A i \in 1..Len(tree) : tree[i] = child[i]

\* Node.is_partial_node computed from the mapping (a cache miss)
is_partial_node_scan(tree) ==
  \E i \in 1..Len(flat_dict) : is_child_node(tree, raw_path_to_node(flat_dict[i].key))

\* the key of the is_partial_node cache: Node.__hash__ / Node.__eq__
node_key(tree) == [i \in 1..Len(tree) |-> rstrip(tree[i])]

\* Node.is_partial_node through lazy_property: the cached flag of an equal
\* Node if there is one
is_partial_node(tree) ==
  IF node_key(tree) \in DOMAIN partial_cache
    THEN partial_cache[node_key(tree)]
    ELSE is_partial_node_scan(tree)

\* NodeTree._generate_first_layer: <<first_layer, prefixes_keep>> of a mapping
RECURSIVE generate_first_layer(_, _, _, _)
generate_first_layer(d, hide, layer, keep) ==
  IF d = <<>> THEN <<layer \o keep, keep>>
  ELSE LET node_split == split(Head(d).key)
       IN IF node_split[2] = hide
            THEN generate_first_layer(Tail(d), hide,
                   IF node_split[3] \in Range(layer) THEN layer ELSE Append(layer, node_split[3]),
                   keep)
            ELSE generate_first_layer(Tail(d), hide, layer,
                   IF node_split[2] \in Range(keep) THEN keep ELSE Append(keep, node_split[2]))

\* ------------------------------------------------------------------ device

\* "/" + "/".join(segments)
Path(segments) == <<Slash>> \o join(segments)

OptionsOnOff ==
  << [code |-> 0, text |-> <<Quote, "o", "f", "f", Quote, ":">>],
     [code |-> 1, text |-> <<Quote, "o", "n", Quote, ":">>] >>

\* What listNodesJSON answers for the device "D" and the data server "Z":
\* the descriptors, keyed as the server spells them.
DeviceNodes ==
  << [key |-> Path(<< <<"D">>, <<"A">> >>),
      info |-> [Node |-> Path(<< <<"D">>, <<"A">> >>), Type |-> "Double",
                Properties |-> {"Read", "Write", "Setting"}]],
     [key |-> Path(<< <<"D">>, <<"B">> >>),
      info |-> [Node |-> Path(<< <<"D">>, <<"B">> >>), Type |-> "Integer (64 bit)",
                Properties |-> {"Read"}]],
     [key |-> Path(<< <<"D">>, <<"W">> >>),
      info |-> [Node |-> Path(<< <<"D">>, <<"W">> >>), Type |-> "Integer (64 bit)",
                Properties |-> {"Write"}]],
     [key |-> Path(<< <<"D">>, <<"X">>, <<"0">> >>),
      info |-> [Node |-> Path(<< <<"D">>, <<"X">>, <<"0">> >>), Type |-> "Integer (64 bit)",
                Properties |-> {"Read", "Write", "Setting"}]],
     [key |-> Path(<< <<"D">>, <<"X">>, <<"1">> >>),
      info |-> [Node |-> Path(<< <<"D">>, <<"X">>, <<"1">> >>), Type |-> "Integer (64 bit)",
                Properties |-> {"Read", "Write", "Setting"}]],
     [key |-> Path(<< <<"D">>, <<"I", "N">>, <<"0">> >>),
      info |-> [Node |-> Path(<< <<"D">>, <<"I", "N">>, <<"0">> >>), Type |-> "Integer (64 bit)",
                Properties |-> {"Read", "Write", "Setting"}]],
     [key |-> Path(<< <<"D">>, <<"M">> >>),
      info |-> [Node |-> Path(<< <<"D">>, <<"M">> >>), Type |-> "Integer (enumerated)",
                Properties |-> {"Read", "Write", "Setting"}, Options |-> OptionsOnOff]],
     [key |-> Path(<< <<"D">>, <<"V">> >>),
      info |-> [Node |-> Path(<< <<"D">>, <<"V">> >>), Type |-> "ZIVectorData",
                Properties |-> {"Read", "Write"}]],
     [key |-> Path(<< <<"Z">>, <<"V">> >>),
      info |-> [Node |-> Path(<< <<"Z">>, <<"V">> >>), Type |-> "Integer (64 bit)",
                Properties |-> {"Read"}]] >>

\* The nodes of a device the drivers of its modules use: the sequencer of
\* an AWG core and the result logger of a readout channel.
DriverNodes ==
  << [key |-> Path(<< <<"D">>, <<"A", "W", "G">>, <<"S", "I", "N", "G", "L", "E">> >>),
      info |-> [Node |-> Path(<< <<"D">>, <<"A", "W", "G">>, <<"S", "I", "N", "G", "L", "E">> >>),
                Type |-> "Integer (64 bit)", Properties |-> {"Read", "Write", "Setting"}]],
     [key |-> Path(<< <<"D">>, <<"A", "W", "G">>, <<"E", "N", "A", "B", "L", "E">> >>),
      info |-> [Node |-> Path(<< <<"D">>, <<"A", "W", "G">>, <<"E", "N", "A", "B", "L", "E">> >>),
                Type |-> "Integer (64 bit)", Properties |-> {"Read", "Write", "Setting"}]],
     [key |-> Path(<< <<"D">>, <<"A", "W", "G">>, <<"W", "A", "V", "E", "F", "O", "R", "M">>,
                      <<"D", "E", "S", "C", "R", "I", "P", "T", "O", "R", "S">> >>),
      info |-> [Node |-> Path(<< <<"D">>, <<"A", "W", "G">>,
                                 <<"W", "A", "V", "E", "F", "O", "R", "M">>,
                                 <<"D", "E", "S", "C", "R", "I", "P", "T", "O", "R", "S">> >>),
                Type |-> "ZIVectorData", Properties |-> {"Read"}]],
     [key |-> Path(<< <<"D">>, <<"A", "W", "G">>, <<"R", "E", "A", "D", "Y">> >>),
      info |-> [Node |-> Path(<< <<"D">>, <<"A", "W", "G">>, <<"R", "E", "A", "D", "Y">> >>),
                Type |-> "Integer (64 bit)", Properties |-> {"Read"}]],
     [key |-> Path(<< <<"D">>, <<"R", "E", "S", "U", "L", "T">>,
                      <<"E", "N", "A", "B", "L", "E">> >>),
      info |-> [Node |-> Path(<< <<"D">>, <<"R", "E", "S", "U", "L", "T">>,
                                 <<"E", "N", "A", "B", "L", "E">> >>),
                Type |-> "Integer (64 bit)", Properties |-> {"Read", "Write", "Setting"}]] >>

\* The addresses of the device, lower case, in the order the transport
\* lists them; the transport takes an address in any letter case.
driver_order ==
  << Path(<< <<"d">>, <<"a", "w", "g">>, <<"s", "i", "n", "g", "l", "e">> >>),
     Path(<< <<"d">>, <<"a", "w", "g">>, <<"e", "n", "a", "b", "l", "e">> >>),
     Path(<< <<"d">>, <<"a", "w", "g">>, <<"w", "a", "v", "e", "f", "o", "r", "m">>,
             <<"d", "e", "s", "c", "r", "i", "p", "t", "o", "r", "s">> >>),
     Path(<< <<"d">>, <<"a", "w", "g">>, <<"r", "e", "a", "d", "y">> >>),
     Path(<< <<"d">>, <<"r", "e", "s", "u", "l", "t">>, <<"e", "n", "a", "b", "l", "e">> >>) >>

device_order ==
  [i \in 1..Len(DeviceNodes) |-> lower(DeviceNodes[i].key)] \o driver_order

\* --------------------------------------------------------------- transport

\* What the connection object offers beyond the Connection protocol.
caps == {"getComplex", "getSample", "getDIO", "setVector", "syncSet"}

conn_call(op, path, value) == [op |-> op, path |-> path, value |-> value]

store_put(st, path, value) ==
  IF lower(path) \in DOMAIN st THEN [st EXCEPT ![lower(path)] = value] ELSE st

RECURSIVE store_put_all(_, _)
store_put_all(st, pairs) ==
  IF pairs = <<>> THEN st
  ELSE store_put_all(store_put(st, Head(pairs)[1], Head(pairs)[2]), Tail(pairs))

\* connection.set(path, value), connection.setVector, connection.syncSet*:
\* one write; `fails` is the transport raising instead of writing
conn_set(op, st, path, value, fails) ==
  [calls |-> <<conn_call(op, path, value)>>,
   store |-> IF fails THEN st ELSE store_put(st, path, value),
   out |-> IF fails THEN Raise("RuntimeError", path) ELSE Return(None)]

\* connection.set(list of (path, value)): one batched write
conn_set_list(st, pairs, fails) ==
  [calls |-> <<conn_call("set", <<"list">>, pairs)>>,
   store |-> IF fails THEN st ELSE store_put_all(st, pairs),
   out |-> IF fails THEN Raise("RuntimeError", <<"list">>) ELSE Return(None)]

\* a read that answers with the value the open transaction holds for the
\* path, without asking the transport
conn_read_pending(op, st, path) ==
  LET q == set_transaction_queue
      pending == IF q[1] # "list" THEN {}
                 ELSE {i \in 1..Len(q[2]) :
                         q[2][i][1] = "node"
                           /\ lower(node_to_raw_path(q[2][i][2])) = lower(path)}
  IN IF pending # {}
       THEN [calls |-> <<>>,
             out |-> Return(q[2][CHOOSE i \in pending : \A j \in pending : j <= i][3])]
       ELSE [calls |-> <<conn_call(op, path, None)>>,
             out |-> IF lower(path) \in DOMAIN st THEN Return(st[lower(path)])
                     ELSE Raise("RuntimeError", path)]

\* connection.getInt / getDouble / getString / getComplex / getSample / getDIO
conn_read(op, st, path) ==
  [calls |-> <<conn_call(op, path, None)>>,
   out |-> IF lower(path) \in DOMAIN st THEN Return(st[lower(path)])
           ELSE Raise("RuntimeError", path)]

\* connection.get(path, flat=True): the addresses the pattern matches, each
\* with the timestamp `ts` (None on a HF2) and its value
conn_get(st, path, ts) ==
  LET hit == fnmatch_filter(SelectSeqBy(device_order, DOMAIN st), lower(path))
  IN [calls |-> <<conn_call("get", path, None)>>,
      out |-> Return([i \in 1..Len(hit) |->
                       [key |-> hit[i], timestamp |-> ts, value |-> st[hit[i]]]])]

\* ------------------------------------------------------------- descriptors

\* where the regular expression "(.+?)"[,:]+ matches first from an opening
\* quote at p: the index of the closing quote, 0 if there is none
label_end(text, p) ==
  LET ends == {j \in (p + 2)..(Len(text) - 1) :
                 text[j] = Quote /\ text[j + 1] \in {",", ":"}}
  IN IF ends = {} THEN 0 ELSE CHOOSE j \in ends : \A k \in ends : j <= k

\* the end of the run [,:]+ that starts at j
RECURSIVE run_end(_, _)
run_end(text, j) ==
  IF j + 1 <= Len(text) /\ text[j + 1] \in {",", ":"} THEN run_end(text, j + 1) ELSE j

RECURSIVE findall_from(_, _)
\* re.findall(r'"(.+?)"[,:]+', text[p:])
findall_from(text, p) ==
  IF p > Len(text) THEN <<>>
  ELSE IF text[p] = Quote /\ label_end(text, p) # 0
    THEN LET e == label_end(text, p)
         IN <<SubSeq(text, p + 1, e - 1)>> \o findall_from(text, run_end(text, e + 1) + 1)
  ELSE findall_from(text, p + 1)

RECURSIVE option_map_of(_)
\* Node._option_map over the descriptor's Options, in their order: a later
\* code overwrites a label an earlier code listed
option_map_of(options) ==
  IF options = <<>> THEN [l \in {} |-> 0]
  ELSE LET item == options[Len(options)]
           rest == option_map_of(SubSeq(options, 1, Len(options) - 1))
           labels == Range(findall_from(item.text, 1))
       IN [l \in DOMAIN rest \cup labels |-> IF l \in labels THEN item.code ELSE rest[l]]

\* Node._option_map_reverse: code -> first label, for codes with a label
option_map_reverse_of(options) ==
  LET with_label == {i \in 1..Len(options) : findall_from(options[i].text, 1) # <<>>}
  IN [c \in {options[i].code : i \in with_label} |->
        LET i == CHOOSE k \in with_label :
                   options[k].code = c /\ \A m \in with_label : options[m].code = c => m <= k
        IN findall_from(options[i].text, 1)[1]]

\* the callables a descriptor can carry as GetParser / SetParser
apply_parser(name, value) ==
  CASE name = "time2samples" -> <<value[1], value[2] * 2>>
    [] name = "samples2time" -> <<value[1], value[2] \div 2>>
    [] name = "other_label" ->
         IF value[1] # "s" THEN value
         ELSE IF value[2] = <<"o", "n">> THEN <<"s", <<"o", "f", "f">>>>
         ELSE IF value[2] = <<"o", "f", "f">> THEN <<"s", <<"o", "n">>>>
         ELSE value
    [] OTHER -> value

\* "Integer" in self.type
type_is_integer(type) == type \in {"Integer (64 bit)", "Integer (enumerated)"}

\* truth value of a timestamp: None and 0 are falsy
truthy(ts) == ts # None /\ ts # IntV(0)

\* Node.node: the descriptor's canonical address, "" if it has none
node_address(info) == InfoGet(info, "Node", <<>>)

\* ------------------------------------------------------------------- get

RECURSIVE dict_of_nodes(_, _)
\* the dict comprehension of Node._get_wildcard: an entry whose Node equals
\* an earlier key keeps that key and takes the later value
dict_of_nodes(entries, acc) ==
  IF entries = <<>> THEN acc
  ELSE LET e == Head(entries)
           node == raw_path_to_node(e.key)
           item == <<e.timestamp, e.value>>
           same == {i \in 1..Len(acc) : node_key(acc[i].node) = node_key(node)}
       IN dict_of_nodes(Tail(entries),
            IF same = {} THEN Append(acc, [node |-> node, item |-> item])
            ELSE [i \in 1..Len(acc) |->
                    IF i \in same THEN [node |-> acc[i].node, item |-> item] ELSE acc[i]])

\* _get_wildcard that returns an empty dict when the transport returns nothing
Node_get_wildcard_empty(node_raw, ts) ==
  LET r == conn_get(store, node_raw, ts)
  IN [calls |-> r.calls, out |-> Return(<<"dict", dict_of_nodes(r.out.val, <<>>)>>)]

\* Node._get_wildcard(node_raw) with the default flat=True
Node_get_wildcard(node_raw, ts) ==
  LET r == conn_get(store, node_raw, ts)
  IN [calls |-> r.calls,
      out |-> IF r.out.val = <<>> THEN Raise("KeyError", node_raw)
              ELSE Return(<<"dict", dict_of_nodes(r.out.val, <<>>)>>)]

\* Node._get_deep: <<timestamp, value>> of the first entry the transport returns
Node_get_deep(info, ts) ==
  LET r == conn_get(store, node_address(info), ts)
  IN [calls |-> r.calls,
      out |-> IF r.out.val = <<>> THEN Raise("TypeError", node_address(info))
              ELSE Return(<<r.out.val[1].timestamp, r.out.val[1].value>>)]

\* Node._get_cached: the accessor of the descriptor's type
Node_get_cached(info, ts) ==
  LET type == InfoGet(info, "Type", "")
      addr == node_address(info)
  IN IF type_is_integer(type) THEN conn_read("getInt", store, addr)
     ELSE IF type = "Complex Double"
       THEN IF "getComplex" \in connection THEN conn_read("getComplex", store, addr)
            ELSE [calls |-> <<>>, out |-> Raise("AttributeError", "getComplex")]
     ELSE IF type = "Double" THEN conn_read("getDouble", store, addr)
     ELSE IF type = "String" THEN conn_read("getString", store, addr)
     ELSE IF type = "ZIVectorData"
       THEN LET d == Node_get_deep(info, ts)
            IN [calls |-> d.calls,
                out |-> IF d.out.exc = "none" THEN Return(d.out.val[2]) ELSE d.out]
     ELSE IF type = "ZIDemodSample"
       THEN IF "getSample" \in connection THEN conn_read("getSample", store, addr)
            ELSE [calls |-> <<>>, out |-> Raise("AttributeError", "getSample")]
     ELSE IF type = "ZIDIOSample"
       THEN IF "getDIO" \in connection THEN conn_read("getDIO", store, addr)
            ELSE [calls |-> <<>>, out |-> Raise("RuntimeError", "can only be polled")]
     ELSE [calls |-> <<>>, out |-> Raise("RuntimeError", "can only be polled")]

\* Node._get, enum: a number with a label in the reverse option map becomes
\* that label (dict.get finds the key 1 for the float 1.0 as well)
decode_enum(info, enum, value) ==
  IF enum /\ "Options" \in DOMAIN info /\ value[1] \in {"i", "f"}
    THEN LET reverse == option_map_reverse_of(info["Options"])
         IN IF value[2] \in DOMAIN reverse /\ reverse[value[2]] # <<>>
              THEN StrV(reverse[value[2]]) ELSE value
    ELSE value

\* Node._get, parse: the GetParser of the descriptor, if it has one
parse_get(info, parse, value) ==
  IF parse /\ "GetParser" \in DOMAIN info
    THEN apply_parser(info["GetParser"], value) ELSE value

\* Node._get: (timestamp, value) if there is a timestamp, else the value
with_timestamp(timestamp, value) ==
  IF truthy(timestamp) THEN <<"tuple", timestamp, value>> ELSE value

\* Node._get on a resolved descriptor: read, decode, parse
Node_get_value(info, deep, enum, parse, ts) ==
  LET r == IF deep THEN Node_get_deep(info, ts)
           ELSE Node_get_cached(info, ts)
  IN IF r.out.exc # "none" THEN r
     ELSE [calls |-> r.calls,
           out |-> Return(with_timestamp(
                     IF deep THEN r.out.val[1] ELSE None,
                     parse_get(info, parse,
                       decode_enum(info, enum,
                         IF deep THEN r.out.val[2] ELSE r.out.val))))]

\* Node._get: the outcome, the transport calls and the is_partial_node cache
Node_get(tree, deep, enum, parse, ts) ==
  LET ni == node_information(tree)
  IN IF ni.exc = "KeyError"
       THEN IF contains_wildcards(tree)
              THEN Node_get_wildcard(node_to_raw_path(tree), ts)
                     @@ [cache |-> partial_cache]
            ELSE LET partial == is_partial_node(tree)
                     cache == (node_key(tree) :> partial) @@ partial_cache
                 IN IF partial
                      THEN Node_get_wildcard(node_to_raw_path(tree) \o <<Slash, "*">>, ts)
                             @@ [cache |-> cache]
                      ELSE [calls |-> <<>>, out |-> ni, cache |-> cache]
     ELSE IF ni.exc # "none"
       THEN [calls |-> <<>>, out |-> ni, cache |-> partial_cache]
     ELSE IF "Read" \notin InfoGet(ni.val, "Properties", {})
       THEN [calls |-> <<>>, out |-> Raise("AttributeError", "not readable"),
             cache |-> partial_cache]
     ELSE Node_get_value(ni.val, deep, enum, parse, ts) @@ [cache |-> partial_cache]

\* ------------------------------------------------------------------- set

\* A transaction buffer <<"list", items>>; an item is <<"node", tree, value>>
\* or <<"str", string, value>>.
EmptyQueue == <<"list", <<>>>>

\* the (path, value) pair of one buffered item, as set_transaction flushes it
flush_pair(item) ==
  IF item[1] = "node"
    THEN IF node_to_raw_path_raises(item[2]) THEN Raise("TypeError", item[2])
         ELSE Return(<<node_to_raw_path(item[2]), item[3]>>)
    ELSE LET r == string_to_raw_path(item[2])
         IN IF r.exc = "none" THEN Return(<<r.val, item[3]>>) ELSE r

\* set_transaction whose finally clause is skipped when the flush raises
set_transaction_exit_keeps(q, st, fails) ==
  IF q = None
    THEN [calls |-> <<>>, store |-> st, queue |-> None,
          out |-> Raise("TypeError", "'NoneType' object is not iterable")]
  ELSE conn_set_list(st, [i \in 1..Len(q[2]) |-> flush_pair(q[2][i]).val], fails)
         @@ [queue |-> IF fails THEN q ELSE None]

\* NodeTree.set_transaction after the yield returned normally: the flush.
\* The finally clause removes the buffer whatever the outcome (queue |-> None).
set_transaction_exit(q, st, fails) ==
  IF q = None
    THEN [calls |-> <<>>, store |-> st, queue |-> None,
          out |-> Raise("TypeError", "'NoneType' object is not iterable")]
  ELSE LET items == q[2]
           bad == {i \in 1..Len(items) : flush_pair(items[i]).exc # "none"}
       IN IF bad # {}
            THEN [calls |-> <<>>, store |-> st, queue |-> None,
                  out |-> flush_pair(items[CHOOSE i \in bad : \A k \in bad : i <= k])]
            ELSE conn_set_list(st, [i \in 1..Len(items) |-> flush_pair(items[i]).val], fails)
                   @@ [queue |-> None]

\* set_transaction that flushes what is pending when the body raises
set_transaction_abort_flushes(q, st) ==
  IF q = None THEN [calls |-> <<>>, store |-> st, queue |-> None,
                    out |-> Raise("Exception", "body")]
  ELSE conn_set_list(st, [i \in 1..Len(q[2]) |-> flush_pair(q[2][i]).val], FALSE)
         @@ [queue |-> None]

\* NodeTree.set_transaction when the body of the with statement raises: the
\* finally clause alone runs and the exception of the body goes on to the caller
set_transaction_abort(q, st) ==
  [calls |-> <<>>, store |-> st, queue |-> None, out |-> Raise("Exception", "body")]

\* add_to_set_transaction that puts the new item first
add_to_set_transaction_first(q, item) ==
  IF q = None THEN [queue |-> q, out |-> Raise("AttributeError", "No set transaction is in progress.")]
  ELSE [queue |-> <<"list", <<item>> \o q[2]>>, out |-> Return(None)]

\* NodeTree.add_to_set_transaction
add_to_set_transaction(q, item) ==
  IF q = None THEN [queue |-> q, out |-> Raise("AttributeError", "No set transaction is in progress.")]
  ELSE [queue |-> <<"list", Append(q[2], item)>>, out |-> Return(None)]

\* Node._set_deep with syncSetInt for every value
Node_set_deep_int(st, info, value, fails) ==
  IF value[1] \notin {"i", "f", "s"}
    THEN [calls |-> <<>>, store |-> st, out |-> Raise("RuntimeError", "Invalid type"), warn |-> FALSE]
  ELSE IF "syncSet" \in connection
    THEN conn_set("syncSetInt", st, node_address(info), value, fails) @@ [warn |-> FALSE]
  ELSE conn_set("set", st, node_address(info), value, fails) @@ [warn |-> TRUE]

\* Node._set_deep: the synchronous setter of the value's type; without one
\* the call of None raises TypeError, which is downgraded to a warning
Node_set_deep(st, info, value, fails) ==
  LET op == CASE value[1] = "i" -> "syncSetInt"
              [] value[1] = "f" -> "syncSetDouble"
              [] value[1] = "s" -> "syncSetString"
              [] OTHER -> "none"
  IN IF op = "none"
       THEN [calls |-> <<>>, store |-> st, out |-> Raise("RuntimeError", "Invalid type"), warn |-> FALSE]
     ELSE IF "syncSet" \in connection
       THEN conn_set(op, st, node_address(info), value, fails) @@ [warn |-> FALSE]
     ELSE conn_set("set", st, node_address(info), value, fails) @@ [warn |-> TRUE]

\* an encoding that tests the code for truth: the label of the code 0 is
\* taken for a label the map does not have
encode_enum_truthy(info, enum, value) ==
  IF enum /\ "Options" \in DOMAIN info /\ value[1] = "s"
    THEN LET map == option_map_of(info["Options"])
         IN IF value[2] \in DOMAIN map /\ map[value[2]] # 0
              THEN IntV(map[value[2]]) ELSE value
    ELSE value

\* Node._set, enum: a label of the option map becomes its code
encode_enum(info, enum, value) ==
  IF enum /\ "Options" \in DOMAIN info /\ value[1] = "s"
    THEN LET map == option_map_of(info["Options"])
         IN IF value[2] \in DOMAIN map THEN IntV(map[value[2]]) ELSE value
    ELSE value

\* _set that buffers a vector like any other value while a transaction is open
Node_set_value_buffers_vector(q, st, tree, info, value, deep, enum, parse, fails) ==
  LET parsed == IF parse /\ "SetParser" \in DOMAIN info
                  THEN apply_parser(info["SetParser"], value) ELSE value
      encoded == encode_enum(info, enum, parsed)
      quiet == [calls |-> <<>>, store |-> st, queue |-> q, warn |-> FALSE]
  IN IF q # None THEN add_to_set_transaction(q, <<"node", tree, encoded>>) @@ quiet
     ELSE IF InfoGet(info, "Type", "") = "ZIVectorData"
       THEN conn_set("setVector", st, node_address(info), encoded, fails) @@ quiet
     ELSE IF deep THEN Node_set_deep(st, info, encoded, fails) @@ quiet
     ELSE conn_set("set", st, node_address(info), encoded, fails) @@ quiet

\* Node._set on a resolved descriptor: parse, encode, then buffer or write
Node_set_value(q, st, tree, info, value, deep, enum, parse, fails) ==
  LET parsed == IF parse /\ "SetParser" \in DOMAIN info
                  THEN apply_parser(info["SetParser"], value) ELSE value
      encoded == encode_enum(info, enum, parsed)
      type == InfoGet(info, "Type", "")
      quiet == [calls |-> <<>>, store |-> st, queue |-> q, warn |-> FALSE]
  IN IF q # None
       THEN IF type = "ZIVectorData"
              THEN [out |-> Raise("AttributeError", "Transactions do not support ZIVectorData")] @@ quiet
            ELSE add_to_set_transaction(q, <<"node", tree, encoded>>) @@ quiet
     ELSE IF type = "ZIVectorData"
       THEN IF "setVector" \in connection
              THEN conn_set("setVector", st, node_address(info), encoded, fails) @@ quiet
              ELSE [out |-> Raise("AttributeError", "connection does not support setVector")] @@ quiet
     ELSE IF deep THEN Node_set_deep(st, info, encoded, fails) @@ quiet
     ELSE conn_set("set", st, node_address(info), encoded, fails) @@ quiet

RECURSIVE Node_set(_, _, _, _, _, _, _, _, _)
RECURSIVE set_each(_, _, _, _, _, _, _)
\* the body of the with statement of Node._set_wildcard: node(value) on the
\* Node of every matched path, stopping at the first that raises
set_each(q, st, nodes_raw, value, calls, fails, fuel) ==
  IF nodes_raw = <<>> THEN [calls |-> calls, store |-> st, queue |-> q, out |-> Return(None)]
  ELSE LET r == Node_set(q, st, raw_path_to_node(Head(nodes_raw)), value,
                         FALSE, TRUE, TRUE, fails, fuel)
       IN IF r.out.exc # "none"
            THEN [calls |-> calls \o r.calls, store |-> r.store, queue |-> r.queue, out |-> r.out]
            ELSE set_each(r.queue, r.store, Tail(nodes_raw), value, calls \o r.calls, fails, fuel)

\* Node._set_wildcard: a set_transaction of its own around the fan-out
Node_set_wildcard(q, st, tree, value, fails, fuel) ==
  LET pattern == node_to_raw_path(tree)
      nodes_raw == fnmatch_filter(dict_keys(flat_dict), pattern)
      quiet == [calls |-> <<>>, store |-> st, queue |-> q, warn |-> FALSE]
  IN IF nodes_raw = <<>> THEN [out |-> Raise("KeyError", pattern)] @@ quiet
     ELSE LET body == set_each(EmptyQueue, st, nodes_raw, value, <<>>, fails, fuel)
          IN IF body.out.exc # "none"
               THEN [calls |-> body.calls, store |-> body.store, queue |-> None,
                     out |-> body.out, warn |-> FALSE]
               ELSE LET f == set_transaction_exit(body.queue, body.store, fails)
                    IN [calls |-> body.calls \o f.calls, store |-> f.store, queue |-> None,
                        out |-> f.out, warn |-> FALSE]

\* _set without the check of the writable right
Node_set_unchecked(q, st, tree, value, deep, enum, parse, fails, fuel) ==
  LET ni == node_information(tree)
      quiet == [calls |-> <<>>, store |-> st, queue |-> q, warn |-> FALSE]
  IN IF ni.exc = "KeyError"
       THEN IF contains_wildcards(tree) /\ fuel > 0
              THEN Node_set_wildcard(q, st, tree, value, fails, fuel - 1)
              ELSE [out |-> ni] @@ quiet
     ELSE IF ni.exc # "none" THEN [out |-> ni] @@ quiet
     ELSE Node_set_value(q, st, tree, ni.val, value, deep, enum, parse, fails)

\* Node._set: the outcome, the transport calls, the store and the buffer.
\* `fuel` is the call depth left before RecursionError.
Node_set(q, st, tree, value, deep, enum, parse, fails, fuel) ==
  LET ni == node_information(tree)
      quiet == [calls |-> <<>>, store |-> st, queue |-> q, warn |-> FALSE]
  IN IF fuel = 0 THEN [out |-> Raise("RecursionError", tree)] @@ quiet
     ELSE IF ni.exc = "KeyError"
       THEN IF contains_wildcards(tree)
              THEN Node_set_wildcard(q, st, tree, value, fails, fuel - 1)
              ELSE [out |-> ni] @@ quiet
     ELSE IF ni.exc # "none" THEN [out |-> ni] @@ quiet
     ELSE IF "Write" \notin InfoGet(ni.val, "Properties", {})
       THEN [out |-> Raise("AttributeError", "This parameter is read-only.")] @@ quiet
     ELSE Node_set_value(q, st, tree, ni.val, value, deep, enum, parse, fails)

\* ------------------------------------------------------------ update_node

\* NodeTree.update_node(node, updates, add) for a Node <<"node", tree>> or a
\* string <<"str", text>>: the mapping afterwards and the outcome
update_node(d, node, updates, add) ==
  LET key == IF node[1] = "node"
               THEN IF node_to_raw_path_raises(node[2]) THEN Raise("TypeError", node[2])
                    ELSE Return(node_to_raw_path(node[2]))
               ELSE string_to_raw_path(node[2])
  IN IF key.exc # "none" THEN [flat_dict |-> d, out |-> key]
     ELSE LET keys == fnmatch_filter(dict_keys(d), key.val)
          IN IF keys = <<>>
               THEN IF ~add THEN [flat_dict |-> d, out |-> Raise("KeyError", key.val)]
                    ELSE [flat_dict |-> dict_setitem(d, key.val, updates), out |-> Return(None)]
               ELSE [flat_dict |-> [i \in 1..Len(d) |->
                                      IF d[i].key \in Range(keys)
                                        THEN [key |-> d[i].key, info |-> InfoUpdate(d[i].info, updates)]
                                        ELSE d[i]],
                     out |-> Return(None)]

\* ------------------------------------------------------------------ caller

\* The Nodes the caller builds by chaining: tree[...] and attribute access.
NodeA == << <<"a">> >>

NodeB == << <<"b">> >>

NodeW == << <<"w">> >>

NodeX == << <<"x">> >>

NodeXAll == << <<"x">>, <<"*">> >>

NodeAll == << <<"*">> >>

NodeT == << <<"t">> >>

NodeQ == << <<"q">> >>

NodeQAll == << <<"q">>, <<"*">> >>

NodeRoot == <<>>

\* the descriptor of a computed address, as the drivers retrofit one: its
\* canonical address is that of the node it is computed from
VirtualInfo ==
  [Node |-> Path(<< <<"D">>, <<"A">> >>), Type |-> "Double",
   Properties |-> {"Read", "Write", "Setting"},
   GetParser |-> "samples2time", SetParser |-> "time2samples"]

\* What the caller does under Spec: sets in and out of transactions.
GetCalls ==
  [tree : {NodeA, NodeW}, deep : {FALSE}, ts : {IntV(7)}]

SetCalls ==
  [tree : {NodeA}, value : {IntV(1), IntV(2)}]
    \cup [tree : {NodeB, NodeXAll, NodeAll, NodeQAll}, value : {IntV(1)}]

AddCalls == { <<"str", <<"a">>, IntV(1)>> }

\* update_node with a wildcard Node that matches nothing and add=True
UpdateCalls ==
  { [node |-> <<"node", NodeQAll>>, updates |-> VirtualInfo, add |-> TRUE] }

\* What the caller does under SpecRead: gets of leaves, partial Nodes and
\* wildcards over a mapping that update_node extends with a computed node.
ReadGetCalls ==
  [tree : {NodeA, NodeT, NodeX, NodeXAll, NodeRoot, NodeQAll}, deep : {FALSE},
   ts : {IntV(7)}]
    \cup [tree : {NodeAll}, deep : {FALSE}, ts : {None, IntV(7)}]

ReadSetCalls ==
  [tree : {NodeA, NodeT}, value : {IntV(1)}]

ReadUpdateCalls ==
  { [node |-> <<"node", NodeT>>, updates |-> VirtualInfo, add |-> TRUE],
    [node |-> <<"node", NodeQ>>, updates |-> VirtualInfo, add |-> FALSE] }

\* the writes among transport calls
is_write(call) ==
  call.op \in {"set", "setVector", "syncSetInt", "syncSetDouble", "syncSetString"}

writes_of(calls) == SelectSeq(calls, is_write)

min(a, b) == IF a <= b THEN a ELSE b

\* the count of writes inside the innermost scope after `calls`
count_writes(calls) ==
  IF depth = 0 THEN 0 ELSE min(WritesCap, scope_writes + Len(writes_of(calls)))

queue_fits(q) == IF q = None THEN TRUE ELSE Len(q[2]) <= MaxQueue

\* no wait_for_state_change call is in progress
Idle == [pc |-> "idle"]

\* NodeTree.__init__ with prefix_hide "D" over the listing of the device
\* NodeTree.__init__ on the device of the examples
NodeTree_init ==
  /\ prefix_hide = lower(<<"D">>)
  /\ flat_dict = [i \in 1..Len(DeviceNodes) |->
                    [key |-> lower(DeviceNodes[i].key), info |-> DeviceNodes[i].info]]
  /\ first_layer = generate_first_layer(flat_dict, prefix_hide, <<>>, <<>>)[1]
  /\ prefixes_keep = generate_first_layer(flat_dict, prefix_hide, <<>>, <<>>)[2]
  /\ set_transaction_queue = None
  /\ partial_cache = [k \in {} |-> FALSE]
  /\ store = [a \in Range(device_order) |-> IntV(0)]
  /\ depth = 0
  /\ last = [op |-> "init", arg |-> None, out |-> Return(None), calls |-> <<>>]
  /\ scope_writes = 0
  /\ issued = <<>>
  /\ plain = FALSE
  /\ now = 0
  /\ wait = Idle

\* the transport of a data server session offers every operation
\* the AWG module before a sequencer program has been given to it
ModuleIdle == [compiler |-> -1, progress |-> 0, elf |-> 0]

NoSession ==
  /\ daq_server = [hf2 |-> FALSE, connected |-> <<>>]
  /\ devices = <<>>
  /\ created = 0
  /\ handed = [k \in {} |-> 0]
  /\ accepted = {}
  /\ awg_module = ModuleIdle
  /\ load = Idle

EnvInit == connection = caps /\ NoSession

Init == NodeTree_init /\ EnvInit

\* node() : Node.__call__ without a value
Get(c) ==
  \E r \in {Node_get(c.tree, c.deep, TRUE, TRUE, c.ts)} :
     /\ last' = [op |-> "get", arg |-> c, out |-> r.out, calls |-> r.calls]
     /\ partial_cache' = r.cache
     /\ scope_writes' = count_writes(r.calls)
     /\ UNCHANGED <<env, now, wait, prefix_hide, prefixes_keep, first_layer, flat_dict,
                    set_transaction_queue, store, depth, issued, plain>>

\* node(value) : Node.__call__ with a value
Set(c, fails) ==
  \E r \in {Node_set(set_transaction_queue, store, c.tree, c.value,
                    FALSE, TRUE, TRUE, fails, MaxRecursion)} :
     /\ queue_fits(r.queue)
     /\ fails => r.calls # <<>>
     /\ last' = [op |-> "set", arg |-> c, out |-> r.out, calls |-> r.calls]
     /\ set_transaction_queue' = r.queue
     /\ store' = r.store
     /\ scope_writes' = count_writes(r.calls)
     /\ plain' = (plain /\ ~contains_wildcards(c.tree))
     /\ issued' = IF ~plain' THEN <<>>
                  ELSE IF r.out.exc = "none" THEN Append(issued, <<c.tree, c.value>>)
                  ELSE issued
     /\ UNCHANGED <<env, now, wait, prefix_hide, prefixes_keep, first_layer, flat_dict,
                    partial_cache, depth>>

\* with tree.set_transaction(): the scope is entered
Enter(max_depth) ==
  /\ depth < max_depth
  /\ set_transaction_queue' = EmptyQueue
  /\ depth' = depth + 1
  /\ last' = [op |-> "enter", arg |-> depth, out |-> Return(None), calls |-> <<>>]
  /\ scope_writes' = 0
  /\ plain' = TRUE
  /\ issued' = <<>>
  /\ UNCHANGED <<env, now, wait, prefix_hide, prefixes_keep, first_layer, flat_dict,
                 partial_cache, store>>

\* the body of the with statement ends normally: the buffer is flushed
Exit(fails) ==
  \E r \in {set_transaction_exit(set_transaction_queue, store, fails)} :
     /\ depth > 0
     /\ fails => r.calls # <<>>
     /\ set_transaction_queue' = r.queue
     /\ store' = r.store
     /\ depth' = depth - 1
     /\ last' = [op |-> "exit", arg |-> [plain |-> plain, issued |-> Len(issued)],
                  out |-> r.out, calls |-> r.calls]
     /\ scope_writes' = 0
     /\ plain' = FALSE
     /\ issued' = <<>>
     /\ UNCHANGED <<env, now, wait, prefix_hide, prefixes_keep, first_layer, flat_dict,
                    partial_cache>>

\* the body of the with statement raises: the finally clause alone runs
RaiseInScope ==
  \E r \in {set_transaction_abort(set_transaction_queue, store)} :
     /\ depth > 0
     /\ set_transaction_queue' = r.queue
     /\ store' = r.store
     /\ depth' = depth - 1
     /\ last' = [op |-> "raise",
                  arg |-> IF set_transaction_queue = None THEN 0
                          ELSE Len(set_transaction_queue[2]),
                  out |-> r.out, calls |-> r.calls]
     /\ scope_writes' = 0
     /\ plain' = FALSE
     /\ issued' = <<>>
     /\ UNCHANGED <<env, now, wait, prefix_hide, prefixes_keep, first_layer, flat_dict,
                    partial_cache>>

\* tree.update_node(node, updates, add)
UpdateNode(c) ==
  \E r \in {update_node(flat_dict, c.node, c.updates, c.add)} :
     /\ flat_dict' = r.flat_dict
     /\ last' = [op |-> "update_node", arg |-> c, out |-> r.out, calls |-> <<>>]
     /\ plain' = FALSE
     /\ issued' = <<>>
     /\ UNCHANGED <<env, now, wait, prefix_hide, prefixes_keep, first_layer, set_transaction_queue,
                    partial_cache, store, depth, scope_writes>>

\* tree.add_to_set_transaction(node, value) called by the caller itself
AddToSetTransaction(item) ==
  \E r \in {add_to_set_transaction(set_transaction_queue, item)} :
     /\ queue_fits(r.queue)
     /\ set_transaction_queue' = r.queue
     /\ last' = [op |-> "add_to_set_transaction", arg |-> item, out |-> r.out, calls |-> <<>>]
     /\ plain' = FALSE
     /\ issued' = <<>>
     /\ UNCHANGED <<env, now, wait, prefix_hide, prefixes_keep, first_layer, flat_dict,
                    partial_cache, store, depth, scope_writes>>

Next ==
  \/ \E c \in GetCalls : Get(c)
  \/ \E c \in SetCalls, fails \in BOOLEAN : Set(c, fails)
  \/ Enter(MaxDepth)
  \/ \E fails \in BOOLEAN : Exit(fails)
  \/ RaiseInScope
  \/ \E item \in AddCalls : AddToSetTransaction(item)
  \/ \E c \in UpdateCalls : UpdateNode(c)

Spec == Init /\ [][Next]_vars

NextRead ==
  \/ \E c \in ReadGetCalls : Get(c)
  \/ \E c \in ReadSetCalls : Set(c, FALSE)
  \/ Enter(MaxReadDepth)
  \/ Exit(FALSE)
  \/ RaiseInScope
  \/ \E c \in ReadUpdateCalls : UpdateNode(c)

SpecRead == Init /\ [][NextRead]_vars

\* ------------------------------------------------------------------ claims

\* the one batched write that carries the sets `sets` (<<tree, value>> each)
batch_of(sets) ==
  conn_call("set", <<"list">>,
            [i \in 1..Len(sets) |-> <<node_to_raw_path(sets[i][1]), sets[i][2]>>])

\* C1: in a scope that saw nothing but gets and sets of concrete Nodes, no
\* write reaches the transport before the scope is left, and leaving it
\* normally makes exactly one transport call: one batched write holding the
\* (path, value) pair of every set that was issued, in the order of issue.
C1_OneBatchedWriteInIssueOrder ==
  /\ [](depth >= 1 /\ plain => scope_writes = 0)
  /\ [][(last'.op = "exit" /\ plain) => last'.calls = <<batch_of(issued)>>]_vars

C1_Witness ==
  /\ last.op = "exit"
  /\ last.arg.plain
  /\ last.arg.issued = 2
  /\ last.out.exc = "none"
  /\ Len(last.calls[1].value) = 2
  /\ last.calls[1].value[1] # last.calls[1].value[2]

\* C2: when the body of a scope raises after k sets were buffered, no
\* transport call is made, the store is as it was, the buffer is gone (the k
\* sets are never written) and the caller gets the error of the body.
C2_AbortDiscardsPending ==
  [][last'.op = "raise" =>
       /\ last'.calls = <<>>
       /\ store' = store
       /\ set_transaction_queue' = None
       /\ last'.out = Raise("Exception", "body")]_vars

C2_Witness ==
  /\ last.op = "raise"
  /\ last.arg = 2
  /\ set_transaction_queue = None

\* C3: whenever the caller is inside no scope the buffer is None, and a
\* flush the transport fails (at the end of a scope or of a wildcard set)
\* was attempted exactly once and leaves no buffer behind to retry.
C3_NoBufferOutsideScope ==
  /\ depth = 0 => set_transaction_queue = None
  /\ (last.op \in {"exit", "set"} /\ last.out.exc = "RuntimeError" /\ last.calls[1].path = <<"list">>)
       => /\ Len(last.calls) = 1
          /\ set_transaction_queue = None

C3_Witness ==
  /\ last.op = "exit"
  /\ last.out.exc = "RuntimeError"
  /\ last.arg.issued = 1
  /\ depth = 0
  /\ set_transaction_queue = None

\* C4: opening a scope while another is open is rejected: the open raises
\* and the buffer of the scope already open keeps its pending writes.
C4_NestedOpenRejected ==
  [][(last'.op = "enter" /\ depth >= 1) =>
       /\ last'.out.exc # "none"
       /\ set_transaction_queue' = set_transaction_queue]_vars

\* the mapping keys a wildcard Node matches, in the order of the mapping
wild_matches(tree) == fnmatch_filter(dict_keys(flat_dict), node_to_raw_path(tree))

\* the descriptor at `key` takes a set that is buffered: writable, not a vector
accepts_set(key) ==
  /\ "Write" \in InfoGet(dict_get(flat_dict, key), "Properties", {})
  /\ InfoGet(dict_get(flat_dict, key), "Type", "") # "ZIVectorData"

\* C5: a set on a wildcard Node while a buffer is installed makes no
\* transport call and leaves the buffer holding every earlier pending write
\* followed by one entry per matched path.
C5_WildcardSetIsBuffered ==
  [][(/\ last'.op = "set"
      /\ contains_wildcards(last'.arg.tree)
      /\ set_transaction_queue # None
      /\ wild_matches(last'.arg.tree) # <<>>
      /\ \A i \in 1..Len(wild_matches(last'.arg.tree)) :
            accepts_set(wild_matches(last'.arg.tree)[i]))
     => /\ last'.calls = <<>>
        /\ set_transaction_queue' =
             <<"list", set_transaction_queue[2] \o
                [i \in 1..Len(wild_matches(last'.arg.tree)) |->
                   <<"node", raw_path_to_node(wild_matches(last'.arg.tree)[i]),
                     last'.arg.value>>]>>]_vars

\* C6: every pair a scope flushes goes to the address an immediate set of
\* its Node writes to: the canonical address of the descriptor (letter case
\* apart, which the transport ignores).
C6_FlushAddressIsSetAddress ==
  (last.op = "exit" /\ last.calls # <<>>) =>
    \A i \in 1..Len(last.calls[1].value) :
       lower(last.calls[1].value[i][1])
         = lower(node_address(dict_get(flat_dict, last.calls[1].value[i][1])))

\* the descriptor of the concrete Node `tree` is there and lacks `right`
lacks_right(tree, right) ==
  /\ node_information(tree).exc = "none"
  /\ right \notin InfoGet(node_information(tree).val, "Properties", {})

\* C7: a get of a Node whose descriptor lacks Read and a set of a Node whose
\* descriptor lacks Write raise the access error, make no transport call and
\* leave the buffer and the store as they were.
C7_AccessErrorWithoutTransport ==
  [][/\ (last'.op = "get" /\ lacks_right(last'.arg.tree, "Read"))
          => /\ last'.out.exc = "AttributeError"
             /\ last'.calls = <<>>
             /\ UNCHANGED <<set_transaction_queue, store>>
     /\ (last'.op = "set" /\ lacks_right(last'.arg.tree, "Write"))
          => /\ last'.out.exc = "AttributeError"
             /\ last'.calls = <<>>
             /\ UNCHANGED <<set_transaction_queue, store>>]_vars

C7_Witness ==
  /\ last.op = "set"
  /\ last.arg.tree = NodeB
  /\ last.out.exc = "AttributeError"
  /\ last.calls = <<>>
  /\ set_transaction_queue # None
  /\ Len(set_transaction_queue[2]) = 1

\* C8: the get of a concrete Node without descriptor that is a strict
\* ancestor of a descriptor makes the transport call and returns the result
\* of the get of that Node extended by "*".
C8_PartialGetIsWildcardGet ==
  (/\ last.op = "get"
   /\ ~contains_wildcards(last.arg.tree)
   /\ node_information(last.arg.tree).exc = "KeyError"
   /\ is_partial_node_scan(last.arg.tree))
  => /\ last.calls = Node_get(Append(last.arg.tree, <<"*">>), last.arg.deep,
                              TRUE, TRUE, last.arg.ts).calls
     /\ last.out = Node_get(Append(last.arg.tree, <<"*">>), last.arg.deep,
                            TRUE, TRUE, last.arg.ts).out

\* the Nodes of the entries of a returned dict
nodes_of(out) == {out.val[2][i].node : i \in 1..Len(out.val[2])}

device_matches(pattern) ==
  SelectSeqBy(device_order, {a \in DOMAIN store : fnmatchcase(a, lower(pattern))})

C10_WildcardSetOneBatch ==
  (last.op = "set" /\ contains_wildcards(last.arg.tree) /\ depth = 0) =>
    IF wild_matches(last.arg.tree) = <<>>
      THEN last.out = Raise("KeyError", node_to_raw_path(last.arg.tree)) /\ last.calls = <<>>
    ELSE IF \A i \in 1..Len(wild_matches(last.arg.tree)) :
              accepts_set(wild_matches(last.arg.tree)[i])
      THEN last.calls = <<conn_call("set", <<"list">>,
                           [i \in 1..Len(wild_matches(last.arg.tree)) |->
                              <<wild_matches(last.arg.tree)[i], last.arg.value>>])>>
    ELSE last.out.exc # "none" /\ last.calls = <<>>

\* -------------------------------------------------------------- registries

\* a read/write integer descriptor, keyed as the server spells it
Leaf(segments) ==
  [key |-> Path(segments),
   info |-> [Node |-> Path(segments), Type |-> "Integer (64 bit)",
             Properties |-> {"Read", "Write", "Setting"}]]

\* Options in which the label "on" is listed under the codes 1 and 2
OptionsShared ==
  << [code |-> 0, text |-> <<Quote, "o", "f", "f", Quote, ":">>],
     [code |-> 1, text |-> <<Quote, "o", "n", Quote, ":">>],
     [code |-> 2, text |-> <<Quote, "o", "n", Quote, ",", Quote, "h", "i", Quote, ":">>],
     [code |-> 3, text |-> <<"n", "o", "n", "e">>] >>

\* a device with a branch X beside a leaf XY, a segment ending in an
\* underscore, a child of the hidden prefix named like the kept prefix Z and
\* an enumerated node with a shared label
CollidingNodes ==
  << Leaf(<< <<"D">>, <<"X">>, <<"0">> >>),
     Leaf(<< <<"D">>, <<"X", "Y">> >>),
     Leaf(<< <<"D">>, <<"A", "_">>, <<"0">> >>),
     Leaf(<< <<"D">>, <<"Z">>, <<"1">> >>),
     [key |-> Path(<< <<"D">>, <<"M">> >>),
      info |-> [Node |-> Path(<< <<"D">>, <<"M">> >>), Type |-> "Integer (enumerated)",
                Properties |-> {"Read", "Write", "Setting"}, Options |-> OptionsShared]],
     Leaf(<< <<"Z">>, <<"V">> >>) >>

\* a device whose serial is a reserved word
KeywordNodes ==
  << Leaf(<< <<"I", "S">>, <<"A">> >>),
     Leaf(<< <<"I", "S">>, <<"I", "N">>, <<"0">> >>),
     Leaf(<< <<"Z">>, <<"V">> >>) >>

\* the arguments NodeTree is constructed with: prefix_hide and the answer of
\* listNodesJSON
Registries ==
  { [hide |-> <<"D">>, nodes |-> DeviceNodes],
    [hide |-> <<"D">>, nodes |-> CollidingNodes],
    [hide |-> <<"I", "S">>, nodes |-> KeywordNodes],
    [hide |-> None, nodes |-> DeviceNodes] }

\* NodeTree.__init__ for the arguments r
InitNode ==
  \E r \in Registries :
    /\ prefix_hide = IF r.hide = None THEN None ELSE lower(r.hide)
    /\ flat_dict = [i \in 1..Len(r.nodes) |->
                      [key |-> lower(r.nodes[i].key), info |-> r.nodes[i].info]]
    /\ first_layer = generate_first_layer(flat_dict, prefix_hide, <<>>, <<>>)[1]
    /\ prefixes_keep = generate_first_layer(flat_dict, prefix_hide, <<>>, <<>>)[2]
    /\ set_transaction_queue = None
    /\ partial_cache = [k \in {} |-> FALSE]
    /\ store = [a \in {lower(r.nodes[i].key) : i \in 1..Len(r.nodes)}
                     \cup {r.nodes[i].key : i \in 1..Len(r.nodes)} |-> IntV(0)]
    /\ depth = 0
    /\ last = [op |-> "init", arg |-> None, out |-> Return(None), calls |-> <<>>]
    /\ scope_writes = 0
    /\ issued = <<>>
    /\ plain = FALSE
    /\ now = 0
    /\ wait = Idle
    /\ EnvInit

\* the registry and the transport are left alone
NodeFrame ==
  UNCHANGED <<env, now, wait, prefix_hide, prefixes_keep, first_layer, flat_dict,
              set_transaction_queue, partial_cache, store, depth,
              scope_writes, issued, plain>>

\* Node.__eq__ for two Nodes of one registry: the segments without their
\* trailing underscores
Node_eq(tree, other) == node_key(tree) = node_key(other)

\* root.raw_path_to_node(p), root.node_to_raw_path of it, and the Node of that
RoundTrip(p) ==
  /\ last' = [op |-> "round_trip", arg |-> p,
              out |-> IF node_to_raw_path_raises(raw_path_to_node(p))
                        THEN Raise("TypeError", raw_path_to_node(p))
                        ELSE Return([node |-> raw_path_to_node(p),
                                     raw |-> node_to_raw_path(raw_path_to_node(p)),
                                     back |-> raw_path_to_node(
                                                node_to_raw_path(raw_path_to_node(p)))]),
              calls |-> <<>>]
  /\ NodeFrame

\* the integers a transport reads from an enumerated node
Codes == 0..3

\* what a get returns for the stored code c, and what a set of that makes of it
EnumRoundTrip(info, c) ==
  /\ "Options" \in DOMAIN info
  /\ last' = [op |-> "enum_round_trip", arg |-> [info |-> info, code |-> c],
              out |-> Return([label |-> decode_enum(info, TRUE, IntV(c)),
                              code |-> encode_enum(info, TRUE,
                                         decode_enum(info, TRUE, IntV(c)))]),
              calls |-> <<>>]
  /\ NodeFrame

\* --------------------------------------------------------- Nodes as values

\* a Node: the registry instance it belongs to and its segments
NodeOf(root, tree) == [root |-> root, tree |-> tree]

\* the NodeTree instances a caller holds, constructed with the same arguments
Roots == {"tree", "twin"}

\* NodeTree.__getattr__(name): a Node, None for a name with a leading underscore
NodeTree_getattr(root, name) ==
  IF ~startswith(name, <<"_">>) THEN NodeOf(root, <<lower(name)>>) ELSE None

\* NodeTree.__getitem__(name)
NodeTree_getitem(root, name) ==
  IF Slash \in Range(lower(name))
    THEN IF split(lower(name))[1] # <<>>
           THEN NodeOf(root, split(lower(name)))
           ELSE NodeOf(root, Tail(split(lower(name))))
    ELSE NodeOf(root, <<lower(name)>>)

\* Node.__getitem__(name), name already a str
Node_getitem(n, name) == NodeOf(n.root, Append(n.tree, name))

\* Node.node, which is also Node.__repr__
Node_node(tree) ==
  IF node_information(tree).exc = "KeyError" THEN Return(node_information(tree).arg)
  ELSE IF node_information(tree).exc # "none" THEN node_information(tree)
  ELSE Return(node_address(node_information(tree).val))

\* Node.__eq__ between Nodes of any registries, segments compared as written
Node_equal_raw(a, b) == a.tree = b.tree /\ a.root = b.root

\* Node.__eq__ between Nodes of any registries
Node_equal(a, b) == Node_eq(a.tree, b.tree) /\ a.root = b.root

RECURSIVE Node_hash(_, _)
\* Node.__hash__: what is hashed, or the exception. For the empty path it is
\* repr(self), whose lookup goes through an lru_cache that hashes the Node
\* again; at the end of the stack (fuel 0) the RecursionError is caught.
Node_hash(n, fuel) ==
  IF node_key(n.tree) # <<>>
    THEN Return([kind |-> "tuple", key |-> node_key(n.tree), root |-> n.root])
  ELSE IF fuel = 0
    THEN Return([kind |-> "str", key |-> <<"N", "o", "d", "e">>, root |-> n.root])
  ELSE IF Node_hash(n, fuel - 1).exc # "none" THEN Node_hash(n, fuel - 1)
  ELSE IF Node_node(n.tree).exc # "none" THEN Node_node(n.tree)
  ELSE Return([kind |-> "str", key |-> Node_node(n.tree).val, root |-> n.root])

\* the Nodes a caller holds, by the chain of accesses that made them
HeldNodes ==
  { NodeTree_getattr("tree", <<"A">>),
    NodeTree_getitem("tree", <<"a">>),
    Node_getitem(NodeTree_getattr("tree", <<"i", "n", "_">>), <<"0">>),
    NodeTree_getitem("tree", <<"I", "N", "/", "0">>),
    NodeTree_getitem("tree", <<"/", "i", "n", "/", "0">>),
    NodeTree_getitem("twin", <<"i", "n", "/", "0">>),
    NodeOf("tree", <<>>),
    NodeOf("twin", <<>>),
    NodeTree_getattr("tree", <<"i", "n">>) }

\* a == b, hash(a) and hash(b)
Compare(a, b) ==
  /\ last' = [op |-> "compare", arg |-> <<a, b>>,
              out |-> Return([eq |-> Node_equal(a, b),
                              hash_a |-> Node_hash(a, MaxRecursion),
                              hash_b |-> Node_hash(b, MaxRecursion)]),
              calls |-> <<>>]
  /\ NodeFrame

\* the properties of class Node that read one entry of the descriptor, with
\* the entry and the default of each
InfoProperties ==
  (<<"d", "e", "s", "c", "r", "i", "p", "t", "i", "o", "n">> :> <<"Description", <<>>>>)
  @@ (<<"t", "y", "p", "e">> :> <<"Type", "">>)
  @@ (<<"u", "n", "i", "t">> :> <<"Unit", <<>>>>)
  @@ (<<"o", "p", "t", "i", "o", "n", "s">> :> <<"Options", <<>>>>)
  @@ (<<"p", "r", "o", "p", "e", "r", "t", "i", "e", "s">> :> <<"Properties", {}>>)

\* the methods of class Node with a public name
NodeMethods ==
  { <<"s", "u", "b", "s", "c", "r", "i", "b", "e">>,
    <<"u", "n", "s", "u", "b", "s", "c", "r", "i", "b", "e">>,
    <<"w", "a", "i", "t", "_", "f", "o", "r", "_", "s", "t", "a", "t", "e", "_",
      "c", "h", "a", "n", "g", "e">> }

\* getattr(n, name): the attributes found on the instance and on the class,
\* and Node.__getattr__ for every other name. `lookup` tells that the registry
\* was consulted, `cache` is the is_partial_node cache afterwards.
Node_getattr(n, name) ==
  LET quiet == [lookup |-> FALSE, cache |-> partial_cache]
      looked == [lookup |-> TRUE, cache |-> partial_cache]
  IN IF name \in {<<"_", "t", "r", "e", "e">>, <<"r", "a", "w", "_", "t", "r", "e", "e">>}
       THEN [out |-> Return(<<"tuple", n.tree>>)] @@ quiet
     ELSE IF name \in {<<"_", "r", "o", "o", "t">>, <<"r", "o", "o", "t">>}
       THEN [out |-> Return(<<"NodeTree", n.root>>)] @@ quiet
     ELSE IF name = <<"_", "d", "i", "r", "_", "i", "n", "f", "o">>
       THEN [out |-> Return(None)] @@ quiet
     ELSE IF name \in NodeMethods
       THEN [out |-> Return(<<"method", name>>)] @@ quiet
     ELSE IF name = <<"n", "o", "d", "e">>
       THEN [out |-> IF Node_node(n.tree).exc = "none"
                       THEN Return(<<"str", Node_node(n.tree).val>>)
                       ELSE Node_node(n.tree)] @@ looked
     ELSE IF name \in DOMAIN InfoProperties
       THEN [out |-> IF node_information(n.tree).exc # "none"
                       THEN node_information(n.tree)
                       ELSE Return(<<"entry", InfoGet(node_information(n.tree).val,
                                                      InfoProperties[name][1],
                                                      InfoProperties[name][2])>>)] @@ looked
     ELSE IF name = <<"i", "s", "_", "p", "a", "r", "t", "i", "a", "l", "_", "n", "o", "d", "e">>
       THEN [out |-> Return(<<"bool", is_partial_node(n.tree)>>), lookup |-> TRUE,
             cache |-> (node_key(n.tree) :> is_partial_node(n.tree)) @@ partial_cache]
     ELSE IF ~startswith(name, <<"_">>)
       THEN [out |-> Return(<<"Node", NodeOf(n.root, Append(n.tree, name))>>)] @@ quiet
     ELSE [out |-> Return(None)] @@ quiet

\* Nodes whose is_partial_node is cached at a time
MaxCached == 1

\* the Nodes accessed: a leaf, a branch, a path the registry does not have,
\* and the empty path
AccessNodes ==
  { NodeOf("tree", <<<<"a">>>>), NodeOf("tree", <<<<"x">>>>),
    NodeOf("tree", <<<<"q">>, <<"0">>>>), NodeOf("tree", <<>>) }

\* the names accessed
AccessNames ==
  { <<"0">>, <<"b">>, <<"i", "n", "_">>, <<"Q">>, <<"_", "x">>, <<"_", "t", "r", "e", "e">>,
    <<"n", "o", "d", "e">>, <<"t", "y", "p", "e">>,
    <<"p", "r", "o", "p", "e", "r", "t", "i", "e", "s">>,
    <<"r", "a", "w", "_", "t", "r", "e", "e">>,
    <<"i", "s", "_", "p", "a", "r", "t", "i", "a", "l", "_", "n", "o", "d", "e">>,
    <<"s", "u", "b", "s", "c", "r", "i", "b", "e">> }

\* n.s (how = "attr") and n[s] (how = "item")
Access(n, how, s) ==
  \E r \in {IF how = "attr" THEN Node_getattr(n, s)
            ELSE [out |-> Return(<<"Node", Node_getitem(n, s)>>), lookup |-> FALSE,
                  cache |-> partial_cache]} :
    /\ Cardinality(DOMAIN r.cache) <= MaxCached
    /\ last' = [op |-> "access", arg |-> [node |-> n, how |-> how, name |-> s],
                out |-> r.out, calls |-> <<>>, lookup |-> r.lookup]
    /\ partial_cache' = r.cache
    /\ UNCHANGED <<env, now, wait, prefix_hide, prefixes_keep, first_layer, flat_dict,
                   set_transaction_queue, store, depth, scope_writes, issued, plain>>

\* sub in text, for strings
is_in(sub, text) ==
  \E i \in 0..(Len(text) - Len(sub)) : SubSeq(text, i + 1, i + Len(sub)) = sub

\* NodeTree.__iter__: (Node, descriptor) for every key of the mapping
NodeTree_iter ==
  [i \in 1..Len(flat_dict) |-> <<raw_path_to_node(flat_dict[i].key), flat_dict[i].info>>]

\* the pairs of a mapping whose key the text own_node_raw is in
RECURSIVE iter_select(_, _)
iter_select(d, own_node_raw) ==
  IF d = <<>> THEN <<>>
  ELSE (IF is_in(own_node_raw, Head(d).key)
          THEN << <<raw_path_to_node(Head(d).key), Head(d).info>> >> ELSE <<>>)
       \o iter_select(Tail(d), own_node_raw)

\* Node.__iter__, run to its end: what it yielded, or the exception
Node_iter(tree) ==
  IF Node_node(tree).exc # "none" THEN Node_node(tree)
  ELSE Return(iter_select(flat_dict, Node_node(tree).val))

\* the Nodes iterated: branches, a leaf, an unknown path and the empty path
IterNodes ==
  { <<<<"x">>>>, <<<<"z">>>>, <<<<"a">>>>, <<<<"i", "n", "_">>>>, <<<<"q">>>>, <<>> }

\* list(n), and list(root) beside it
Iterate(tree) ==
  /\ last' = [op |-> "iterate", arg |-> tree, out |-> Node_iter(tree),
              calls |-> <<>>, registry |-> NodeTree_iter]
  /\ NodeFrame

NextNode ==
  \/ \E i \in 1..Len(flat_dict) : RoundTrip(flat_dict[i].key)
  \/ \E i \in 1..Len(flat_dict), c \in Codes : EnumRoundTrip(flat_dict[i].info, c)
  \/ \E a \in HeldNodes, b \in HeldNodes : Compare(a, b)
  \/ \E n \in AccessNodes, how \in {"attr", "item"}, s \in AccessNames : Access(n, how, s)
  \/ \E n \in IterNodes : Iterate(n)

SpecNode == InitNode /\ [][NextNode]_vars

\* C11: for every key p of the mapping, the Node of the absolute path of the
\* Node of p equals the Node of p.
C11_SegmentsRoundTrip ==
  last.op = "round_trip" =>
    /\ last.out.exc = "none"
    /\ Node_eq(last.out.val.back, last.out.val.node)

\* C12: for every key p of the mapping, the absolute path of the Node of p is
\* p, and that Node resolves to the descriptor stored under p.
C12_AbsoluteOfSegmentsIsKey ==
  last.op = "round_trip" =>
    /\ last.out.exc = "none"
    /\ last.out.val.raw = last.arg
    /\ get_node_info(last.out.val.node) = Return(dict_get(flat_dict, last.arg))

\* C13: for a descriptor with an option map and a code c that has a label,
\* the code a set makes of the label that a get makes of c is c.
C13_EncodeOfDecodeIsCode ==
  (last.op = "enum_round_trip"
     /\ last.arg.code \in DOMAIN option_map_reverse_of(last.arg.info["Options"]))
  => last.out.val.code = IntV(last.arg.code)

\* segments without the trailing underscores that escape reserved words
unescaped(tree) == [i \in 1..Len(tree) |-> rstrip(tree[i])]

\* two hash inputs are the same
same_hash(h, g) ==
  /\ h.exc = "none" /\ g.exc = "none"
  /\ h.val.kind = g.val.kind
  /\ h.val.root = g.val.root
  /\ h.val.key = g.val.key

node_local == {<<"_", "t", "r", "e", "e">>, <<"_", "r", "o", "o", "t">>,
               <<"_", "d", "i", "r", "_", "i", "n", "f", "o">>}

\* an access returned the Node of the accessed Node's path extended by the name
extends_path ==
  /\ last.out.exc = "none"
  /\ last.out.val[1] = "Node"
  /\ last.out.val[2] = NodeOf(last.arg.node.root, Append(last.arg.node.tree, last.arg.name))

\* C15: n.s and n[s], for a name s without a leading underscore, return the
\* Node of n's path extended by s, without failing, without a transport call
\* and without a registry lookup, and leave the registry and the transaction
\* buffer unchanged; n.s for an underscore name that is not state of the Node
\* is None.
C15_AccessExtendsPath ==
  /\ [](last.op = "access" =>
          /\ ~startswith(last.arg.name, <<"_">>) =>
               extends_path /\ ~last.lookup /\ last.calls = <<>>
          /\ (last.arg.how = "attr" /\ startswith(last.arg.name, <<"_">>)
                /\ last.arg.name \notin node_local) => last.out = Return(None))
  /\ [][last'.op = "access" =>
          UNCHANGED <<flat_dict, set_transaction_queue, store, prefix_hide,
                      prefixes_keep, first_layer>>]_vars

\* the key is a strict descendant of the path, segment by segment
descends(key, path) ==
  IF path = <<Slash>> THEN TRUE ELSE startswith(key, path \o <<Slash>>)

\* C16: iterating a Node yields, in the order of the mapping, the (Node,
\* descriptor) pairs of exactly the keys that are strict segment-aligned
\* descendants of the Node's path; iterating the Node of the empty path yields
\* what iterating the registry yields.
C16_IterationYieldsDescendants ==
  last.op = "iterate" =>
    /\ last.out.exc = "none"
    /\ last.out.val =
         SelectSeqBy(last.registry,
           {last.registry[i] : i \in {k \in 1..Len(flat_dict) :
              descends(flat_dict[k].key, node_to_raw_path(last.arg))}})
    /\ last.arg = <<>> => last.out.val = last.registry

\* --------------------------------------------------- wait_for_state_change

\* the clock is followed up to this reading
MaxTime == 3

\* a == b for the values a get returns: numbers by value, the rest by type
\* and value
py_eq(a, b) ==
  IF Len(a) # Len(b) THEN FALSE
  ELSE IF a[1] \in {"i", "f"} /\ b[1] \in {"i", "f"} THEN a[2] = b[2]
  ELSE IF a[1] # b[1] THEN FALSE
  ELSE a = b

\* the expected value after the first statement of the try block: an int is
\* replaced by _option_map_reverse.get(value) if the descriptor has Options
wait_expected(info, value) ==
  IF "Options" \in DOMAIN info /\ value[1] = "i"
    THEN IF value[2] \in DOMAIN option_map_reverse_of(info["Options"])
           THEN StrV(option_map_reverse_of(info["Options"])[value[2]])
           ELSE None
    ELSE value

\* wait_for_state_change entered on a Node that is no wildcard, at the time
\* `at`: the frame before the first test of the loop, or the KeyError (or
\* other error) of the lookup, which the except clause re-raises
wait_start(tree, value, timeout, at, frame) ==
  IF node_information(tree).exc # "none"
    THEN [pc |-> "raise", out |-> node_information(tree)]
    ELSE [pc |-> "test", tree |-> tree,
          value |-> wait_expected(node_information(tree).val, value),
          start |-> at, timeout |-> timeout, seen |-> FALSE,
          fan |-> frame.fan, pending |-> frame.pending, results |-> frame.results,
          given |-> Append(frame.given, timeout),
          waited |-> Append(frame.waited, node_to_raw_path(tree)),
          call |-> frame.call]

\* node.wait_for_state_change(value, timeout) entered: a wildcard Node goes
\* to the except clause and enters the wait on its first match
wait_call(c, at) ==
  LET frame == [fan |-> FALSE, pending |-> <<>>, results |-> <<>>,
                given |-> <<>>, waited |-> <<>>, call |-> c]
      nodes_raw == fnmatch_filter(dict_keys(flat_dict), node_to_raw_path(c.tree))
  IN IF node_information(c.tree).exc = "KeyError" /\ contains_wildcards(c.tree)
       THEN IF nodes_raw = <<>>
              THEN [pc |-> "raise", out |-> node_information(c.tree)]
              ELSE wait_start(raw_path_to_node(Head(nodes_raw)), c.value, c.timeout, at,
                              [frame EXCEPT !.fan = TRUE, !.pending = Tail(nodes_raw)])
       ELSE wait_start(c.tree, c.value, c.timeout, at, frame)

\* the fan-out with the caller's timeout for every match
wait_next_same_timeout(w, result, at) ==
  wait_start(raw_path_to_node(Head(w.pending)), w.call.value, w.call.timeout, at,
             [fan |-> TRUE, pending |-> Tail(w.pending),
              results |-> Append(w.results, result),
              given |-> w.given, waited |-> w.waited, call |-> w.call])

\* the loop of the except clause after a match has been waited on: the
\* result is appended, timeout is 0 from now on, the next match is entered
wait_next(w, result, at) ==
  wait_start(raw_path_to_node(Head(w.pending)), w.call.value, 0, at,
             [fan |-> TRUE, pending |-> Tail(w.pending),
              results |-> Append(w.results, result),
              given |-> w.given, waited |-> w.waited, call |-> w.call])

\* the call returns or raises `out`
WaitReturn(out, seen) ==
  /\ wait' = Idle
  /\ last' = [op |-> "wait", arg |-> wait.call, out |-> out, seen |-> seen,
              elapsed |-> now - wait.start, given |-> wait.given,
              waited |-> wait.waited]

WaitFrame ==
  UNCHANGED <<env, prefix_hide, prefixes_keep, first_layer, flat_dict,
              set_transaction_queue, store, depth, scope_writes, issued, plain>>

\* node.wait_for_state_change(value, timeout): up to the first test
WaitCall(c) ==
  /\ wait.pc = "idle"
  /\ \E w \in {wait_call(c, now)} :
       IF w.pc = "raise"
         THEN /\ wait' = Idle
              /\ last' = [op |-> "wait", arg |-> c, out |-> w.out, seen |-> FALSE,
                          elapsed |-> 0, given |-> <<>>, waited |-> <<>>]
         ELSE /\ wait' = w
              /\ last' = [op |-> "waiting", arg |-> c, out |-> Return(None), calls |-> <<>>]
  /\ UNCHANGED <<now, partial_cache>>
  /\ WaitFrame

\* the test of the while loop finds start_time + timeout in the past: the
\* loop ends without a read
WaitExpire ==
  /\ wait.pc = "test"
  /\ wait.start + wait.timeout < now
  /\ wait' = [wait EXCEPT !.pc = "final"]
  /\ UNCHANGED <<last, partial_cache, now>>
  /\ WaitFrame

\* time.sleep(sleep_time): at least one interval passes
WaitSleep ==
  /\ wait.pc = "sleep"
  /\ \E d \in 1..(MaxTime - now) : now' = now + d
  /\ wait' = [wait EXCEPT !.pc = "test"]
  /\ UNCHANGED <<last, partial_cache>>
  /\ WaitFrame

\* the loop after its test read a value, which differs from the expected one
\* (sleep) or not (the loop ends)
wait_test(r) ==
  IF r.out.exc # "none" THEN WaitReturn(r.out, wait.seen)
  ELSE IF py_eq(r.out.val, wait.value)
    THEN wait' = [wait EXCEPT !.pc = "final", !.seen = TRUE] /\ UNCHANGED last
  ELSE wait' = [wait EXCEPT !.pc = "sleep"] /\ UNCHANGED last

\* return self._get() == value after the read; in the fan-out of a wildcard
\* Node the result is appended and the wait on the next match is entered
wait_final(r) ==
  IF r.out.exc # "none" THEN WaitReturn(r.out, wait.seen)
  ELSE IF ~wait.fan
    THEN WaitReturn(Return(<<"bool", py_eq(r.out.val, wait.value)>>),
                    wait.seen \/ py_eq(r.out.val, wait.value))
  ELSE IF wait.pending = <<>>
    THEN WaitReturn(Return(<<"list", Append(wait.results, py_eq(r.out.val, wait.value))>>),
                    wait.seen \/ py_eq(r.out.val, wait.value))
  ELSE \E w \in {wait_next(wait, py_eq(r.out.val, wait.value), now)} :
         IF w.pc = "raise" THEN WaitReturn(w.out, wait.seen)
         ELSE wait' = w /\ UNCHANGED last

\* self._get() is called: by the test of the while loop, start_time + timeout
\* not being in the past, or by the return statement
WaitPoll ==
  /\ IF wait.pc = "test" THEN wait.start + wait.timeout >= now
     ELSE wait.pc = "final"
  /\ \E r \in {Node_get(wait.tree, FALSE, TRUE, TRUE, None)} :
       /\ partial_cache' = r.cache
       /\ IF wait.pc = "test" THEN wait_test(r) ELSE wait_final(r)
  /\ UNCHANGED now
  /\ WaitFrame

\* time passes while the call is between two statements or in the transport
Tick ==
  /\ wait.pc \in {"test", "final"}
  /\ now < MaxTime
  /\ now' = now + 1
  /\ UNCHANGED <<env, prefix_hide, prefixes_keep, first_layer, flat_dict,
                 set_transaction_queue, partial_cache, store, depth, last,
                 scope_writes, issued, plain, wait>>

\* the device changes the value at one of its addresses
RemoteChange(path, value) ==
  /\ wait.pc # "idle"
  /\ store[path] # value
  /\ store' = [store EXCEPT ![path] = value]
  /\ UNCHANGED <<env, prefix_hide, prefixes_keep, first_layer, flat_dict,
                 set_transaction_queue, partial_cache, depth, last,
                 scope_writes, issued, plain, now, wait>>

\* the enumerated node of the device
NodeM == << <<"m">> >>

\* the waits of the caller: value and timeout in sleep intervals
WaitCalls ==
  { [tree |-> NodeA, value |-> IntV(1), timeout |-> 1],
    [tree |-> NodeA, value |-> IntV(1), timeout |-> 0],
    [tree |-> NodeM, value |-> IntV(1), timeout |-> 1],
    [tree |-> NodeM, value |-> IntV(2), timeout |-> 0],
    [tree |-> NodeX, value |-> IntV(1), timeout |-> 1],
    [tree |-> NodeW, value |-> IntV(1), timeout |-> 1],
    [tree |-> NodeXAll, value |-> IntV(1), timeout |-> 1],
    [tree |-> NodeAll, value |-> IntV(1), timeout |-> 0],
    [tree |-> NodeQAll, value |-> IntV(1), timeout |-> 1] }

\* the values the device gives its nodes while the caller waits
RemoteValues ==
  (Path(<< <<"d">>, <<"a">> >>) :> {IntV(0), IntV(1)})
  @@ (Path(<< <<"d">>, <<"m">> >>) :> {IntV(0), IntV(1), IntV(2)})
  @@ (Path(<< <<"d">>, <<"x">>, <<"1">> >>) :> {IntV(0), IntV(1)})

NextWait ==
  \/ \E c \in WaitCalls : WaitCall(c)
  \/ WaitExpire
  \/ WaitPoll
  \/ WaitSleep
  \/ Tick
  \/ \E path \in DOMAIN RemoteValues : \E value \in RemoteValues[path] :
       RemoteChange(path, value)

SpecWait == Init /\ [][NextWait]_vars

\* C17: a wait on a concrete Node returns true once one of its polls has read
\* the expected value, and returns false only when at least the timeout has
\* passed and none of its polls has read the expected value.
C17_WaitReturnsWhatPollsSaw ==
  (last.op = "wait" /\ last.out.exc = "none" /\ last.out.val[1] = "bool") =>
    /\ last.seen => last.out.val[2]
    /\ ~last.out.val[2] => (last.elapsed >= last.arg.timeout /\ ~last.seen)

\* C18: a wait for an integer on a Node whose descriptor has an option map
\* returns true whenever the code stored at the node when it returns is the
\* expected integer, a code without a label included.
C18_WaitOnEnumComparesCodes ==
  (/\ last.op = "wait"
   /\ last.out.exc = "none"
   /\ last.arg.tree = NodeM
   /\ last.arg.value[1] = "i"
   /\ store[lower(node_address(node_information(NodeM).val))] = last.arg.value)
  => last.out.val = <<"bool", TRUE>>

\* the keys of the mapping a pattern matches, in the order of the mapping
wait_matches(tree) == fnmatch_filter(dict_keys(flat_dict), node_to_raw_path(tree))

\* C19: a wait on a wildcard Node fails with the unknown path if no key of
\* the mapping matches; otherwise it waits on the matches one after the other
\* in the order of the mapping, the first with the caller's timeout and the
\* others with timeout 0, and returns a list with one boolean for each.
C19_WildcardWaitFansOut ==
  (last.op = "wait" /\ contains_wildcards(last.arg.tree)) =>
    IF wait_matches(last.arg.tree) = <<>>
      THEN last.out = Raise("KeyError", node_to_raw_path(last.arg.tree))
      ELSE /\ last.out.exc = "none"
           /\ last.out.val[1] = "list"
           /\ Len(last.out.val[2]) = Len(wait_matches(last.arg.tree))
           /\ last.waited = wait_matches(last.arg.tree)
           /\ last.given = [i \in 1..Len(last.waited) |->
                              IF i = 1 THEN last.arg.timeout ELSE 0]

\* the read of a poll succeeds on the Node of a key
wait_can_read(key) ==
  Node_get(raw_path_to_node(key), FALSE, TRUE, TRUE, None).out.exc = "none"

\* the matches up to the first whose read fails, that one included
RECURSIVE until_unreadable(_)
until_unreadable(keys) ==
  IF keys = <<>> THEN <<>>
  ELSE IF wait_can_read(Head(keys)) THEN <<Head(keys)>> \o until_unreadable(Tail(keys))
  ELSE <<Head(keys)>>

\* C19, amended: as C19 if a poll can read every match; if it cannot, the
\* wait fails with the error of the first match that cannot be read, after
\* waiting on the matches before it.
C19_WildcardWaitFansOutReadable ==
  (last.op = "wait" /\ contains_wildcards(last.arg.tree)) =>
    IF wait_matches(last.arg.tree) = <<>>
      THEN last.out = Raise("KeyError", node_to_raw_path(last.arg.tree))
      ELSE /\ last.waited = until_unreadable(wait_matches(last.arg.tree))
           /\ last.given = [i \in 1..Len(last.waited) |->
                              IF i = 1 THEN last.arg.timeout ELSE 0]
           /\ IF \A i \in 1..Len(last.waited) : wait_can_read(last.waited[i])
                THEN /\ last.out.exc = "none"
                     /\ last.out.val[1] = "list"
                     /\ Len(last.out.val[2]) = Len(wait_matches(last.arg.tree))
                ELSE last.out =
                       Node_get(raw_path_to_node(last.waited[Len(last.waited)]),
                                FALSE, TRUE, TRUE, None).out

\* a wait on x/* with timeout 1 has returned one boolean for each of its two
\* matches, the second waited on with timeout 0
C19_Witness ==
  /\ last.op = "wait"
  /\ last.arg.tree = NodeXAll
  /\ last.arg.timeout = 1
  /\ last.out.exc = "none"
  /\ Len(last.out.val[2]) = 2
  /\ last.given = <<1, 0>>

\* ------------------------------------------------------------ vector sets

\* the vector node of the device
NodeV == << <<"v">> >>

\* the sets of a caller that writes a vector and a number
VectorSetCalls ==
  [tree : {NodeV}, value : {IntV(1), IntV(2)}] \cup [tree : {NodeA}, value : {IntV(1)}]

NextVector ==
  \/ \E c \in VectorSetCalls, fails \in BOOLEAN : Set(c, fails)
  \/ \E c \in [tree : {NodeV, NodeA}, deep : {FALSE}, ts : {None}] : Get(c)
  \/ Enter(MaxReadDepth)
  \/ \E fails \in BOOLEAN : Exit(fails)
  \/ RaiseInScope

SpecVector == Init /\ [][NextVector]_vars

Connections == {caps, caps \ {"syncSet"}}

InitDeep == NodeTree_init /\ connection \in Connections /\ NoSession

\* node(value, deep=True) and node(value) of a caller
DeepSetCalls ==
  [tree : {NodeA}, value : {IntV(1), FloatV(2), StrV(<<"o", "n">>)}, deep : {TRUE}]
    \cup [tree : {NodeM}, value : {StrV(<<"o", "n">>)}, deep : BOOLEAN]
    \cup [tree : {NodeV, NodeXAll}, value : {IntV(1)}, deep : {TRUE}]

\* node(value, deep=deep) : Node.__call__ with a value
DeepSet(c, fails) ==
  \E r \in {Node_set(set_transaction_queue, store, c.tree, c.value,
                    c.deep, TRUE, TRUE, fails, MaxRecursion)} :
     /\ queue_fits(r.queue)
     /\ fails => r.calls # <<>>
     /\ last' = [op |-> "set", arg |-> c, out |-> r.out, calls |-> r.calls,
                 warn |-> r.warn, fails |-> fails,
                 buffered |-> set_transaction_queue # None]
     /\ set_transaction_queue' = r.queue
     /\ store' = r.store
     /\ scope_writes' = count_writes(r.calls)
     /\ plain' = (plain /\ ~contains_wildcards(c.tree))
     /\ issued' = IF ~plain' THEN <<>>
                  ELSE IF r.out.exc = "none" THEN Append(issued, <<c.tree, c.value>>)
                  ELSE issued
     /\ UNCHANGED <<env, now, wait, prefix_hide, prefixes_keep, first_layer, flat_dict,
                    partial_cache, depth>>

NextDeep ==
  \/ \E c \in DeepSetCalls, fails \in BOOLEAN : DeepSet(c, fails)
  \/ Enter(MaxReadDepth)
  \/ \E fails \in BOOLEAN : Exit(fails)
  \/ RaiseInScope

SpecDeep == InitDeep /\ [][NextDeep]_vars

\* the synchronous setter of the type of a written value
sync_op_of(value) ==
  CASE value[1] = "i" -> "syncSetInt"
    [] value[1] = "f" -> "syncSetDouble"
    [] value[1] = "s" -> "syncSetString"
    [] OTHER -> "none"

\* the last operation was a deep set of an integer, double or string on a
\* writable Node that is not a vector, outside every transaction
deep_set_case ==
  /\ last.op = "set" /\ "deep" \in DOMAIN last.arg /\ last.arg.deep
  /\ ~last.buffered
  /\ last.arg.value[1] \in {"i", "f", "s"}
  /\ ~contains_wildcards(last.arg.tree)
  /\ ~lacks_right(last.arg.tree, "Write")
  /\ node_information(last.arg.tree).exc = "none"
  /\ InfoGet(node_information(last.arg.tree).val, "Type", "") # "ZIVectorData"

\* C21: a deep set of an integer, double or string on a writable non-vector
\* Node outside a transaction makes exactly one write: the synchronous
\* setter of the written value's type where the transport offers it, else
\* one ordinary set with a warning, which fails only if the transport does
C21_DeepSetIsOneWrite ==
  deep_set_case =>
    /\ Len(last.calls) = 1
    /\ last.calls[1].path = node_address(node_information(last.arg.tree).val)
    /\ IF "syncSet" \in connection
         THEN last.calls[1].op = sync_op_of(last.calls[1].value) /\ ~last.warn
         ELSE /\ last.calls[1].op = "set" /\ last.warn
              /\ ~last.fails => last.out = Return(None)

C21_Witness ==
  /\ deep_set_case
  /\ "syncSet" \notin connection
  /\ last.warn /\ last.out = Return(None)
  /\ last.arg.value = FloatV(2)

\* ------------------------------------------------------------ update_node

\* the absolute path an update_node call names
update_key(c) ==
  IF c.node[1] = "node" THEN node_to_raw_path(c.node[2])
  ELSE string_to_raw_path(c.node[2]).val

\* the path holds a wildcard character
path_has_wildcard(path) == \E w \in {"*", "?", "["} : w \in Range(path)

\* C22: update_node on a path that matches no key raises KeyError and leaves
\* the mapping alone without add, and with add inserts one descriptor under
\* the path, which holds no wildcard; on a path that matches it updates the
\* matched descriptors only.  Every other descriptor stays, no transport call
\* is made, and no mapping key ever holds a wildcard character.
C22_UpdateNodeKeepsKeysLiteral ==
  /\ [](\A i \in 1..Len(flat_dict) : ~path_has_wildcard(flat_dict[i].key))
  /\ [][last'.op = "update_node" =>
          LET c == last'.arg
              key == update_key(c)
              keys == fnmatch_filter(dict_keys(flat_dict), key)
          IN /\ last'.calls = <<>> /\ store' = store
             /\ \A i \in 1..Len(flat_dict) :
                  /\ flat_dict'[i].key = flat_dict[i].key
                  /\ flat_dict[i].key \notin Range(keys) => flat_dict'[i] = flat_dict[i]
                  /\ flat_dict[i].key \in Range(keys) =>
                       flat_dict'[i].info = InfoUpdate(flat_dict[i].info, c.updates)
             /\ IF keys # <<>> THEN Len(flat_dict') = Len(flat_dict)
                ELSE IF ~c.add
                  THEN last'.out = Raise("KeyError", key) /\ flat_dict' = flat_dict
                ELSE /\ flat_dict' = Append(flat_dict, [key |-> key, info |-> c.updates])
                     /\ ~path_has_wildcard(key)]_vars

\* ---------------------------------------------------------- unknown paths

NodeDQ == << <<"d">>, <<"q">> >>

NodeDA == << <<"d">>, <<"a">> >>

\* the gets and sets of a caller that also names paths the device lacks
UnknownGetCalls ==
  [tree : {NodeQ, NodeDQ, NodeA, NodeDA, NodeX}, deep : BOOLEAN, ts : {None}]

UnknownSetCalls ==
  [tree : {NodeQ, NodeDQ, NodeA, NodeDA}, value : {IntV(1)}]

NextUnknown ==
  \/ \E c \in UnknownGetCalls : Get(c)
  \/ \E c \in UnknownSetCalls, fails \in BOOLEAN : Set(c, fails)
  \/ Enter(MaxReadDepth)
  \/ \E fails \in BOOLEAN : Exit(fails)
  \/ RaiseInScope

SpecUnknown == InitNode /\ [][NextUnknown]_vars

\* the segments of a Node joined behind `front`, as an absolute path
path_behind(front, tree) ==
  <<Slash>> \o join(front \o [i \in 1..Len(tree) |-> rstrip(tree[i])])

\* no descriptor is at or below the path
nothing_at(path) ==
  \A i \in 1..Len(flat_dict) :
    /\ flat_dict[i].key # path
    /\ ~startswith(flat_dict[i].key, path \o <<Slash>>)

\* the path of the Node has no descriptor and no descendant descriptor,
\* with the hidden prefix in front of it and without
unknown_path(tree) ==
  /\ tree # <<>>
  /\ ~contains_wildcards(tree)
  /\ nothing_at(path_behind(<<>>, tree))
  /\ prefix_hide # None => nothing_at(path_behind(<<prefix_hide>>, tree))

\* C23: a get or a set on a Node without wildcards whose path has no
\* descriptor and no descendant descriptor raises KeyError and makes no
\* transport call, on every registry
C23_UnknownPathIsKeyError ==
  (last.op \in {"get", "set"} /\ unknown_path(last.arg.tree)) =>
    last.out.exc = "KeyError" /\ last.calls = <<>>

\* -------------------------------------------------------- session devices

MaxCreated == 2

Comma == ","

RECURSIVE join_comma(_)
\* ",".join(list): the value of /zi/devices/connected
join_comma(list) ==
  IF list = <<>> THEN <<>>
  ELSE IF Len(list) = 1 THEN Head(list)
  ELSE Head(list) \o <<Comma>> \o join_comma(Tail(list))

RECURSIVE split_comma(_)
\* str.split(","): always at least one element
split_comma(s) ==
  IF \A i \in 1..Len(s) : s[i] # Comma THEN <<s>>
  ELSE LET k == CHOOSE i \in 1..Len(s) :
                   s[i] = Comma /\ \A j \in 1..(i - 1) : s[j] # Comma
       IN <<SubSeq(s, 1, k - 1)>> \o split_comma(SubSeq(s, k + 1, Len(s)))

UpperChar(c) ==
  CASE c = "d" -> "D" [] c = "e" -> "E" [] c = "v" -> "V" [] OTHER -> c

\* str.upper()
upper(s) == [i \in 1..Len(s) |-> UpperChar(s[i])]

Dev1 == <<"d", "e", "v", "1">>

Dev2 == <<"d", "e", "v", "2">>

\* the keys of the JSON at /zi/devices: the devices the server can see
VisibleDevices == {upper(Dev1), upper(Dev2)}

\* daq_server.getString("/zi/devices/connected"); an HF2 server lacks the node
getString_connected(srv) ==
  IF srv.hf2 THEN Raise("RuntimeError", "ZIAPINotFoundException")
  ELSE Return(join_comma(srv.connected))

\* daq_server.getString("/<serial>/features/devtype")
getString_devtype(srv, serial) ==
  IF lower(serial) \in Range(srv.connected) THEN Return("Test")
  ELSE Raise("RuntimeError", "ZIAPINotFoundException")

\* daq_server.connectDevice(serial, interface)
connectDevice(srv, serial) ==
  IF upper(serial) \notin VisibleDevices
    THEN [out |-> Raise("RuntimeError", serial), srv |-> srv]
  ELSE [out |-> Return(None),
        srv |-> IF lower(serial) \in Range(srv.connected) THEN srv
                ELSE [srv EXCEPT !.connected = Append(@, lower(serial))]]

\* the server without the device
without(srv, serial) ==
  [srv EXCEPT !.connected = SelectSeqBy(@, Range(@) \ {lower(serial)})]

\* Devices.connected
Devices_connected(srv, d) ==
  IF getString_connected(srv).exc = "RuntimeError" THEN dict_keys(d)
  ELSE split_comma(lower(getString_connected(srv).val))

\* Devices._create_device: the number of the new object
Devices_create_device(srv, n, serial) ==
  IF getString_devtype(srv, serial).exc # "none"
    THEN Raise("RuntimeError", serial)
  ELSE Return(n + 1)

\* Devices.__getitem__
Devices_getitem(srv, d, n, key) ==
  IF key \in Range(Devices_connected(srv, d))
    THEN IF key \notin Range(dict_keys(d))
           THEN LET c == Devices_create_device(srv, n, key)
                IN IF c.exc # "none" THEN [out |-> c, devices |-> d, created |-> n]
                   ELSE [out |-> c, devices |-> dict_setitem(d, key, c.val),
                         created |-> c.val]
         ELSE [out |-> Return(dict_get(d, key)), devices |-> d, created |-> n]
  ELSE [out |-> Raise("KeyError", key), devices |-> d, created |-> n]

\* Devices.__setitem__
Devices_setitem(d, n, key, value) ==
  [out |-> Raise("LookupError", "Illegal operation."), devices |-> d, created |-> n]

\* Devices.__delitem__: dict.pop(key, None)
Devices_delitem(d, key) ==
  SelectSeqBy(d, {d[i] : i \in {k \in 1..Len(d) : d[k].key # key}})

\* Mapping.__contains__ over Devices.__getitem__
Devices_contains(srv, d, n, key) ==
  LET r == Devices_getitem(srv, d, n, key)
  IN IF r.out.exc = "KeyError" THEN [r EXCEPT !.out = Return(FALSE)]
     ELSE IF r.out.exc = "none" THEN [r EXCEPT !.out = Return(TRUE)]
     ELSE r

\* MutableMapping.pop(key, None) over Devices.__getitem__ and __delitem__
Devices_pop(srv, d, n, key) ==
  LET r == Devices_getitem(srv, d, n, key)
  IN IF r.out.exc = "KeyError" THEN [r EXCEPT !.out = Return(None)]
     ELSE IF r.out.exc = "none"
       THEN [r EXCEPT !.devices = Devices_delitem(r.devices, key)]
     ELSE r

\* Devices.connect_hf2_device
Devices_connect_hf2_device(srv, d, n, serial) ==
  IF serial \in Range(dict_keys(d))
    THEN [out |-> Raise("RuntimeError", "Can only create one instance"),
          devices |-> d, created |-> n]
  ELSE IF ~srv.hf2
    THEN [out |-> Raise("RuntimeError", "HF2 data server only"), devices |-> d, created |-> n]
  ELSE LET c == Devices_create_device(srv, n, serial)
       IN IF c.exc # "none" THEN [out |-> c, devices |-> d, created |-> n]
          ELSE [out |-> Return(None), devices |-> dict_setitem(d, serial, c.val),
                created |-> c.val]

\* DataServerSession.connect_device(serial, interface)
connect_device(srv, d, n, serial_given, interface) ==
  LET serial == lower(serial_given)
      c == Devices_contains(srv, d, n, serial)
      same == [out |-> c.out, srv |-> srv, devices |-> c.devices, created |-> c.created]
  IN IF c.out.exc # "none" THEN same
     ELSE IF c.out.val
       THEN Devices_getitem(srv, c.devices, c.created, serial) @@ [srv |-> srv]
     ELSE IF interface = None /\ ~srv.hf2 /\ upper(serial) \notin VisibleDevices
       THEN [same EXCEPT !.out = Raise("KeyError", upper(serial))]
     ELSE LET s == connectDevice(srv, serial)
          IN IF s.out.exc # "none" THEN [same EXCEPT !.out = s.out]
             ELSE LET h == IF s.srv.hf2
                             THEN Devices_connect_hf2_device(s.srv, c.devices, c.created, serial)
                             ELSE [out |-> Return(None), devices |-> c.devices,
                                   created |-> c.created]
                  IN IF h.out.exc # "none" THEN h @@ [srv |-> s.srv]
                     ELSE Devices_getitem(s.srv, h.devices, h.created, serial)
                            @@ [srv |-> s.srv]

\* DataServerSession.disconnect_device(serial); `done` is the server having
\* let go of the device by the time the call returns
disconnect_device(srv, d, n, serial, done) ==
  LET p == Devices_pop(srv, d, n, serial)
  IN IF p.out.exc # "none" THEN p @@ [srv |-> srv]
     ELSE [out |-> Return(None), devices |-> p.devices, created |-> p.created,
           srv |-> IF done THEN without(srv, serial) ELSE srv]

\* the serials a caller names
Serials == {Dev1, upper(Dev1), Dev2, <<>>}

\* a session to a data server of either kind, nothing connected yet
InitSession ==
  /\ NodeTree_init
  /\ connection = caps
  /\ daq_server \in [hf2 : BOOLEAN, connected : {<<>>}]
  /\ devices = <<>>
  /\ created = 0
  /\ handed = [k \in {} |-> 0]
  /\ accepted = {}
  /\ awg_module = ModuleIdle
  /\ load = Idle

SessionFrame ==
  UNCHANGED <<connection, awg_module, load, now, wait, prefix_hide, prefixes_keep, first_layer, flat_dict,
              set_transaction_queue, partial_cache, store, depth,
              scope_writes, issued, plain>>

\* the objects handed out for the serials the server still holds
handed_on(h, srv, key, out, hands) ==
  LET h1 == IF hands /\ out.exc = "none" /\ lower(key) \in Range(srv.connected)
              THEN (lower(key) :> out.val) @@ h ELSE h
  IN [k \in DOMAIN h1 \cap Range(srv.connected) |-> h1[k]]

\* what a session operation leaves behind
SessionStep(op, arg, r, srv, key) ==
  /\ r.created <= MaxCreated
  /\ last' = [op |-> op, arg |-> arg, out |-> r.out, calls |-> <<>>,
              connected |-> daq_server.connected]
  /\ devices' = r.devices
  /\ created' = r.created
  /\ daq_server' = srv
  /\ handed' = handed_on(handed, srv, key, r.out, op \in {"getitem", "connect_device"})
  /\ accepted' = IF op = "connect_device" /\ r.out.exc = "none"
                   THEN accepted \cup {key} ELSE accepted
  /\ SessionFrame

\* session.devices[key]
GetItem(key) ==
  \E r \in {Devices_getitem(daq_server, devices, created, key)} :
    SessionStep("getitem", key, r, daq_server, key)

\* session.devices[key] = None
SetItem(key) ==
  \E r \in {Devices_setitem(devices, created, key, None)} :
    SessionStep("setitem", key, r, daq_server, key)

\* del session.devices[key]
DelItem(key) ==
  \E r \in {[out |-> Return(None), devices |-> Devices_delitem(devices, key),
             created |-> created]} :
    SessionStep("delitem", key, r, daq_server, key)

\* list(session.devices) and len(session.devices)
Iter ==
  \E r \in {[out |-> Return(Devices_connected(daq_server, devices)),
             devices |-> devices, created |-> created]} :
    SessionStep("iter", None, r, daq_server, <<>>)

\* session.devices.connect_hf2_device(serial)
ConnectHf2Device(serial) ==
  \E r \in {Devices_connect_hf2_device(daq_server, devices, created, serial)} :
    SessionStep("connect_hf2_device", serial, r, daq_server, serial)

\* session.connect_device(serial)
ConnectDevice(serial) ==
  \E r \in {connect_device(daq_server, devices, created, serial, None)} :
    SessionStep("connect_device", serial, r, r.srv, serial)

\* session.disconnect_device(serial)
DisconnectDevice(serial, done) ==
  \E r \in {disconnect_device(daq_server, devices, created, serial, done)} :
    SessionStep("disconnect_device", serial, r, r.srv, serial)

\* the server lets go of a device: a disconnect that completes, or one
\* asked for through another session
ServerDrop(serial) ==
  /\ serial \in Range(daq_server.connected)
  /\ daq_server' = without(daq_server, serial)
  /\ handed' = [k \in DOMAIN handed \ {serial} |-> handed[k]]
  /\ UNCHANGED <<last, devices, created, accepted>>
  /\ SessionFrame

\* another session connects a device to the server
ServerConnect(serial) ==
  /\ serial \notin Range(daq_server.connected)
  /\ daq_server' = connectDevice(daq_server, serial).srv
  /\ UNCHANGED <<last, devices, created, handed, accepted>>
  /\ SessionFrame

NextSession ==
  \/ \E key \in Serials : GetItem(key)
  \/ \E key \in Serials : SetItem(key)
  \/ \E key \in Serials : DelItem(key)
  \/ Iter
  \/ \E serial \in Serials : ConnectHf2Device(serial)
  \/ \E serial \in Serials : ConnectDevice(serial)
  \/ \E serial \in Serials, done \in BOOLEAN : DisconnectDevice(serial, done)
  \/ \E serial \in {Dev1, Dev2} : ServerDrop(serial)
  \/ \E serial \in {Dev1, Dev2} : ServerConnect(serial)

SpecSession == InitSession /\ [][NextSession]_vars

\* C24: the mapping holds at most one object per serial; devices[serial]
\* returns an object for a serial the server reports connected, the same one
\* as on the earlier accesses since the server began to report it, and raises
\* KeyError for any other serial; connect_hf2_device raises RuntimeError for a
\* serial that has an object; devices[serial] = x raises LookupError and
\* leaves the mapping as it was.
C24_OneObjectPerSerial ==
  /\ [](\A i \in 1..Len(devices), j \in 1..Len(devices) :
          devices[i].key = devices[j].key => i = j)
  /\ [][(last'.op = "getitem" /\ daq_server' = daq_server) =>
          IF last'.arg \in Range(daq_server.connected)
            THEN /\ last'.out.exc = "none"
                 /\ last'.arg \in DOMAIN handed => last'.out.val = handed[last'.arg]
            ELSE last'.out = Raise("KeyError", last'.arg)]_vars
  /\ [][(last'.op = "connect_hf2_device" /\ daq_server' = daq_server
           /\ last'.arg \in Range(dict_keys(devices))) =>
          last'.out.exc = "RuntimeError" /\ devices' = devices]_vars
  /\ [][(last'.op = "setitem" /\ daq_server' = daq_server) =>
          last'.out.exc = "LookupError" /\ devices' = devices]_vars

\* C25: iterating session.devices yields exactly the serials of the devices
\* connected to the data server at the time, and as many as there are, also
\* when there is none
C25_IterationIsConnected ==
  last.op = "iter" =>
    /\ Range(last.out.val) = Range(last.connected)
    /\ Len(last.out.val) = Len(last.connected)

\* C26: disconnect_device of a serial connect_device has accepted returns
\* normally, however often it is called, and leaves no object cached for
\* the serial
C26_DisconnectForgetsDevice ==
  [][(last'.op = "disconnect_device" /\ last'.arg \in accepted
        /\ (last' # last \/ daq_server' # daq_server \/ devices' # devices)) =>
       /\ last'.out = Return(None)
       /\ lower(last'.arg) \notin Range(dict_keys(devices'))]_vars

\* ------------------------------------------------------- waveform memory

MaxSlots == 2

NodeWaveform == << <<"a", "w", "g">>, <<"w", "a", "v", "e", "f", "o", "r", "m">> >>

NodeDescriptors ==
  NodeWaveform \o << <<"d", "e", "s", "c", "r", "i", "p", "t", "o", "r", "s">> >>

\* the waveforms the sequencer program on the device declares
Named == [name |-> <<"w">>, length |-> 2]

Filler == [name |-> <<"_", "_", "f", "i", "l", "l", "e", "r", "0">>, length |-> 2]

WaveformInfos == { <<>>, <<Named>>, <<Named, Named>>, <<Named, Filler>>, <<Filler, Named>> }

\* Waveforms._perpare_wave: clamped or zero padded to the target length,
\* zeros in front if padding_start; scaled by max_wave if that exceeds 1
prepare_wave(wave, max_wave, target_length, padding_start) ==
  LET scaled == [i \in 1..Len(wave) |-> IF max_wave > 1 THEN <<wave[i], max_wave>> ELSE wave[i]]
      zeros == [i \in 1..(target_length - Len(wave)) |-> 0]
  IN IF Len(wave) >= target_length THEN SubSeq(scaled, 1, target_length)
     ELSE IF ~padding_start THEN scaled \o zeros
     ELSE zeros \o scaled

abs(x) == IF x < 0 THEN 0 - x ELSE x

\* np.max(np.abs(wave))
max_abs(wave) ==
  CHOOSE m \in {abs(wave[i]) : i \in 1..Len(wave)} :
    \A i \in 1..Len(wave) : abs(wave[i]) <= m

\* Waveforms.get_raw_vector(slot, target_length) for the waveform x of the
\* slot: np.abs of the absent second wave raises TypeError
get_raw_vector(x, target_length) ==
  LET x1 == IF Len(x[1][2]) = 0 THEN <<0>> ELSE x[1][2]
      x2 == IF x[2][1] # "None" /\ Len(x[2][2]) = 0 THEN <<0>> ELSE x[2][2]
  IN IF x[2][1] = "None"
       THEN Raise("TypeError", "bad operand type for abs(): 'NoneType'")
     ELSE Return(<<"raw",
                   prepare_wave(x1, max_abs(x1), target_length, FALSE),
                   prepare_wave(x2, max_abs(x2), target_length, FALSE),
                   IF x[3][1] = "None" THEN None
                   ELSE <<"w", prepare_wave(x[3][2], 1, target_length, FALSE)>> >>)

\* str(waveform_index)
IndexText(i) == CASE i = 0 -> <<"0">> [] i = 1 -> <<"1">> [] i = 2 -> <<"2">> [] OTHER -> <<"3">>

RECURSIVE waveform_commands(_, _, _, _)
\* the loop of AWGModule.write_to_waveform_memory over waveforms.keys()
waveform_commands(waveform_info, waveforms, node, commands) ==
  IF waveforms = <<>> THEN [out |-> Return(None), commands |-> commands]
  ELSE LET waveform_index == Head(waveforms).key
       IN IF waveform_index >= Len(waveform_info)
            THEN [out |-> Raise("IndexError", waveform_index), commands |-> commands]
          ELSE IF is_in(<<"_", "_", "f", "i", "l", "l", "e", "r">>,
                        waveform_info[waveform_index + 1].name)
            THEN [out |-> Raise("RuntimeError", waveform_index), commands |-> commands]
          ELSE LET v == get_raw_vector(Head(waveforms).info,
                                       waveform_info[waveform_index + 1].length)
               IN IF v.exc # "none" THEN [out |-> v, commands |-> commands]
                  ELSE waveform_commands(waveform_info, Tail(waveforms), node,
                         Append(commands,
                                <<node \o <<Slash>> \o <<"w", "a", "v", "e", "s">>
                                       \o <<Slash>> \o IndexText(waveform_index),
                                  v.val>>))

\* Node.node: the address of the descriptor, the path itself if none is there
Node_node_property(tree) ==
  IF node_information(tree).exc = "KeyError" THEN node_information(tree).arg
  ELSE node_address(node_information(tree).val)

\* an array of samples
Wave(samples) == <<"w", samples>>

\* the Waveforms of a caller: slot -> (wave1, wave2, markers), in the order
\* of assignment
Waves ==
  { <<Wave(<<1>>), Wave(<<1, 0>>), None>>,
    <<Wave(<<1>>), None, None>>,
    <<Wave(<<1, 2, 0>>), Wave(<<1>>), Wave(<<1>>)>> }

WaveformsOver(slots) ==
  {<<>>} \cup { <<[key |-> a, info |-> w]>> : a \in slots, w \in Waves }
    \cup { <<[key |-> p[1], info |-> w], [key |-> p[2], info |-> <<Wave(<<1>>), Wave(<<1, 0>>), None>>]>> :
             p \in {q \in slots \X slots : q[1] # q[2]}, w \in Waves }

\* a device whose sequencer program declares the waveforms of `info`
InitWave ==
  /\ prefix_hide = lower(<<"D">>)
  /\ flat_dict = [i \in 1..Len(DriverNodes) |->
                    [key |-> lower(DriverNodes[i].key), info |-> DriverNodes[i].info]]
  /\ first_layer = generate_first_layer(flat_dict, prefix_hide, <<>>, <<>>)[1]
  /\ prefixes_keep = generate_first_layer(flat_dict, prefix_hide, <<>>, <<>>)[2]
  /\ set_transaction_queue = None
  /\ partial_cache = [k \in {} |-> FALSE]
  /\ \E info \in WaveformInfos :
       store = [a \in {lower(DriverNodes[i].key) : i \in 1..Len(DriverNodes)} |->
                  IF a = node_to_raw_path(NodeDescriptors) THEN <<"json", info>>
                  ELSE IntV(0)]
  /\ depth = 0
  /\ last = [op |-> "init", arg |-> None, out |-> Return(None), calls |-> <<>>]
  /\ scope_writes = 0
  /\ issued = <<>>
  /\ plain = FALSE
  /\ now = 0
  /\ wait = Idle
  /\ EnvInit

\* awg.write_to_waveform_memory(waveforms)
WriteToWaveformMemory(waveforms, fails) ==
  \E d \in {Node_get(NodeDescriptors, FALSE, TRUE, TRUE, None)} :
    /\ partial_cache' = d.cache
    /\ IF d.out.exc # "none"
         THEN /\ last' = [op |-> "write_to_waveform_memory", arg |-> waveforms,
                          out |-> d.out, calls |-> d.calls]
              /\ UNCHANGED store
         ELSE \E c \in {waveform_commands(d.out.val[2], waveforms,
                                          Node_node_property(NodeWaveform), <<>>)} :
                IF c.out.exc # "none"
                  THEN /\ last' = [op |-> "write_to_waveform_memory", arg |-> waveforms,
                                   out |-> c.out, calls |-> d.calls]
                       /\ UNCHANGED store
                  ELSE \E w \in {conn_set_list(store, c.commands, fails)} :
                         /\ last' = [op |-> "write_to_waveform_memory", arg |-> waveforms,
                                     out |-> w.out, calls |-> d.calls \o w.calls]
                         /\ store' = w.store
    /\ UNCHANGED <<env, now, wait, prefix_hide, prefixes_keep, first_layer, flat_dict,
                   set_transaction_queue, depth, scope_writes, issued, plain>>

NextWave ==
  \E waveforms \in WaveformsOver(0..MaxSlots), fails \in BOOLEAN :
    WriteToWaveformMemory(waveforms, fails)

SpecWave == InitWave /\ [][NextWave]_vars

\* the waveforms the device declares, as the call read them
declared(calls) == store[node_to_raw_path(NodeDescriptors)][2]

\* a slot the device does not declare, and a slot it declares as a filler
beyond(info, waveforms) ==
  \E i \in 1..Len(waveforms) : waveforms[i].key >= Len(info)

on_filler(info, waveforms) ==
  \E i \in 1..Len(waveforms) :
    /\ waveforms[i].key < Len(info)
    /\ is_in(<<"_", "_", "f", "i", "l", "l", "e", "r">>, info[waveforms[i].key + 1].name)

\* C29: with a slot beyond the declared waveforms the call raises IndexError,
\* with a slot on a filler RuntimeError (one of the two if both occur), and
\* makes no write; otherwise it makes exactly one batched write with one
\* entry per slot
C29_WaveformWriteAllOrNothing ==
  last.op = "write_to_waveform_memory" =>
    LET info == declared(last.calls)
        writes == writes_of(last.calls)
    IN IF beyond(info, last.arg) \/ on_filler(info, last.arg)
         THEN /\ writes = <<>>
              /\ last.out.exc \in {"IndexError", "RuntimeError"}
              /\ ~on_filler(info, last.arg) => last.out.exc = "IndexError"
              /\ ~beyond(info, last.arg) => last.out.exc = "RuntimeError"
         ELSE /\ Len(writes) = 1
              /\ writes[1].path = <<"list">>
              /\ Len(writes[1].value) = Len(last.arg)

\* ------------------------------------------------- wait_done and stop

NodeSingle == << <<"a", "w", "g">>, <<"s", "i", "n", "g", "l", "e">> >>

NodeEnable == << <<"a", "w", "g">>, <<"e", "n", "a", "b", "l", "e">> >>

NodeResultEnable == << <<"r", "e", "s", "u", "l", "t">>, <<"e", "n", "a", "b", "l", "e">> >>

\* the timeout of wait_for_state_change when the caller passes none
DefaultTimeout == 2

\* False, the int 0 for the transport and the device
PyFalse == IntV(0)

\* not x, for the integer a get returns
py_not(x) == x[1] \in {"i", "f"} /\ x[2] = 0

\* a device with its sequencer in single or continuous mode, running or not,
\* and its result logger enabled or not
InitDriver ==
  /\ prefix_hide = lower(<<"D">>)
  /\ flat_dict = [i \in 1..Len(DriverNodes) |->
                    [key |-> lower(DriverNodes[i].key), info |-> DriverNodes[i].info]]
  /\ first_layer = generate_first_layer(flat_dict, prefix_hide, <<>>, <<>>)[1]
  /\ prefixes_keep = generate_first_layer(flat_dict, prefix_hide, <<>>, <<>>)[2]
  /\ set_transaction_queue = None
  /\ partial_cache = [k \in {} |-> FALSE]
  /\ \E single \in {0, 1}, enable \in {0, 1}, result \in {0, 1} :
       store = [a \in {lower(DriverNodes[i].key) : i \in 1..Len(DriverNodes)} |->
                  IF a = node_to_raw_path(NodeDescriptors) THEN <<"json", <<>>>>
                  ELSE IF a = node_to_raw_path(NodeSingle) THEN IntV(single)
                  ELSE IF a = node_to_raw_path(NodeEnable) THEN IntV(enable)
                  ELSE IntV(result)]
  /\ depth = 0
  /\ last = [op |-> "init", arg |-> None, out |-> Return(None), calls |-> <<>>]
  /\ scope_writes = 0
  /\ issued = <<>>
  /\ plain = FALSE
  /\ now = 0
  /\ wait = Idle
  /\ EnvInit

\* awg.wait_done(timeout) and generator.wait_done(timeout) entered: the
\* frame before self.single() is read
WaitDoneCall(timeout) ==
  /\ wait.pc = "idle"
  /\ last.op # "wait"
  /\ wait' = [pc |-> "single",
              call |-> [op |-> "wait_done", tree |-> NodeEnable, value |-> IntV(0),
                        timeout |-> timeout, asked |-> timeout, single |-> None]]
  /\ last' = [op |-> "waiting", arg |-> wait'.call, out |-> Return(None), calls |-> <<>>]
  /\ UNCHANGED <<now, partial_cache>>
  /\ WaitFrame

\* the driver's call ends with `out`
DriverReturn(call, out, seen, elapsed, waited) ==
  /\ wait' = Idle
  /\ last' = [op |-> call.op, arg |-> call, out |-> out, seen |-> seen,
              elapsed |-> elapsed, waited |-> waited]

\* if not self.single(): raise RuntimeError; else the wait on enable is entered
wait_done_single(r) ==
  IF r.out.exc # "none"
    THEN DriverReturn([wait.call EXCEPT !.single = None], r.out, FALSE, 0, <<>>)
  ELSE IF py_not(r.out.val)
    THEN DriverReturn([wait.call EXCEPT !.single = r.out.val],
                      Raise("RuntimeError", "continuous mode"), FALSE, 0, <<>>)
  ELSE \E w \in {wait_call([wait.call EXCEPT !.single = r.out.val], now)} :
         IF w.pc = "raise"
           THEN DriverReturn([wait.call EXCEPT !.single = r.out.val], w.out, FALSE, 0, <<>>)
           ELSE wait' = w /\ UNCHANGED last

\* a read of the driver's call: self.single(), or self._get() in the test of
\* the while loop or in the return statement of wait_for_state_change
DriverPoll ==
  /\ IF wait.pc = "test" THEN wait.start + wait.timeout >= now
     ELSE wait.pc \in {"single", "final"}
  /\ \E r \in {Node_get(IF wait.pc = "single" THEN NodeSingle ELSE wait.tree,
                        FALSE, TRUE, TRUE, None)} :
       /\ partial_cache' = r.cache
       /\ IF wait.pc = "single" THEN wait_done_single(r)
          ELSE IF wait.pc = "test" THEN wait_test(r)
          ELSE wait_final(r)
  /\ UNCHANGED now
  /\ WaitFrame

\* wait_for_state_change has returned to the driver: TimeoutError if the
\* result is false
DriverRaise ==
  /\ wait.pc = "idle"
  /\ last.op = "wait"
  /\ last' = [op |-> last.arg.op, arg |-> last.arg,
              out |-> IF last.out.exc # "none" THEN last.out
                      ELSE IF last.out.val[2] THEN Return(None)
                      ELSE Raise("TimeoutError", last.arg.asked),
              seen |-> last.seen, elapsed |-> last.elapsed, waited |-> last.waited]
  /\ UNCHANGED <<wait, now, partial_cache>>
  /\ WaitFrame

\* Node._set of node(value) on a Node whose path has no wildcard: the
\* KeyError of the lookup is raised, a node without Write refuses
Node_set_plain(q, st, tree, value, fails) ==
  LET ni == node_information(tree)
      quiet == [calls |-> <<>>, store |-> st, queue |-> q, warn |-> FALSE]
  IN IF ni.exc # "none" THEN [out |-> ni] @@ quiet
     ELSE IF "Write" \notin InfoGet(ni.val, "Properties", {})
       THEN [out |-> Raise("AttributeError", "This parameter is read-only.")] @@ quiet
     ELSE Node_set_value(q, st, tree, ni.val, value, FALSE, TRUE, TRUE, fails)

\* readout.stop(timeout): self.result.enable(False)
Stop(timeout, fails) ==
  /\ wait.pc = "idle"
  /\ last.op # "wait"
  /\ \E r \in {Node_set_plain(set_transaction_queue, store, NodeResultEnable, PyFalse,
                              fails)} :
       /\ store' = r.store
       /\ last' = [op |-> IF r.out.exc # "none" THEN "stop" ELSE "waiting",
                   arg |-> [op |-> "stop", asked |-> timeout],
                   out |-> r.out, calls |-> r.calls, seen |-> FALSE,
                   elapsed |-> 0, waited |-> <<>>]
       /\ wait' = IF r.out.exc # "none" THEN Idle
                  ELSE [pc |-> "enter", asked |-> timeout]
  /\ UNCHANGED <<env, now, partial_cache, prefix_hide, prefixes_keep, first_layer,
                 flat_dict, set_transaction_queue, depth, scope_writes, issued, plain>>

\* the next statement of stop: self.result.enable.wait_for_state_change(0),
\* which is not given the timeout of the caller
StopWait ==
  /\ wait.pc = "enter"
  /\ \E c \in {[op |-> "stop", tree |-> NodeResultEnable, value |-> IntV(0),
                 timeout |-> DefaultTimeout, asked |-> wait.asked]} :
       \E w \in {wait_call(c, now)} :
         IF w.pc = "raise"
           THEN DriverReturn(c, w.out, FALSE, 0, <<>>)
           ELSE wait' = w /\ UNCHANGED last
  /\ UNCHANGED <<now, partial_cache>>
  /\ WaitFrame

\* the timeouts of the callers, in sleep intervals
DriverTimeouts == {0, 1, 4}

\* the values the device gives the nodes while a driver waits
DriverRemoteValues ==
  (node_to_raw_path(NodeEnable) :> {IntV(0), IntV(1)})
  @@ (node_to_raw_path(NodeResultEnable) :> {IntV(0), IntV(1)})

NextDriver ==
  \/ \E timeout \in DriverTimeouts : WaitDoneCall(timeout)
  \/ \E timeout \in DriverTimeouts, fails \in BOOLEAN : Stop(timeout, fails)
  \/ StopWait
  \/ DriverPoll
  \/ DriverRaise
  \/ WaitExpire
  \/ WaitSleep
  \/ Tick
  \/ \E path \in DOMAIN DriverRemoteValues : \E value \in DriverRemoteValues[path] :
       RemoteChange(path, value)

SpecDriver == InitDriver /\ [][NextDriver]_vars

\* C27: wait_done raises RuntimeError, without a wait, whenever single reads
\* 0; otherwise it returns normally if a read of enable gave 0 and raises
\* TimeoutError if none did.
C27_WaitDoneOutcome ==
  (last.op = "wait_done" /\ last.arg.single # None) =>
    IF py_not(last.arg.single)
      THEN last.out.exc = "RuntimeError" /\ last.waited = <<>>
      ELSE /\ last.out.exc \in {"none", "TimeoutError"}
           /\ last.seen <=> last.out.exc = "none"

\* C30: stop(timeout) ends normally only if a read of result.enable gave 0,
\* raises TimeoutError only when the timeout of the caller has passed with no
\* read having given 0, and goes on polling only while the timeout of the
\* caller has not passed.
C30_StopWaitsCallerTimeout ==
  /\ (last.op = "stop" /\ last.out.exc = "none") => last.seen
  /\ (last.op = "stop" /\ last.out.exc = "TimeoutError") =>
       (~last.seen /\ last.elapsed >= last.arg.asked)
  /\ (wait.pc = "sleep" /\ wait.call.op = "stop") =>
       now <= wait.start + wait.call.asked

\* ------------------------------------------------ load_sequencer_program

NodeReady == << <<"a", "w", "g">>, <<"r", "e", "a", "d", "y">> >>

\* the statuses of the compiler of the AWG module: idle or busy, success,
\* failure, success with warnings
CompilerStatuses == {-1, 0, 1, 2}

\* the statuses of the ELF upload: done, failed, in progress
ElfStatuses == {0, 1, 2}

\* the upload progress: nothing or all of the file
Progresses == {0, 1}

\* progress < 1.0
progress_below_one(progress) == progress < 1

\* time.time() - start >= timeout, which no reading satisfies
load_timed_out_never(at, start, timeout) == FALSE

\* time.time() - start >= timeout
load_timed_out(at, start, timeout) == at - start >= timeout

\* a device and an AWG module in any state
InitLoad ==
  /\ prefix_hide = lower(<<"D">>)
  /\ flat_dict = [i \in 1..Len(DriverNodes) |->
                    [key |-> lower(DriverNodes[i].key), info |-> DriverNodes[i].info]]
  /\ first_layer = generate_first_layer(flat_dict, prefix_hide, <<>>, <<>>)[1]
  /\ prefixes_keep = generate_first_layer(flat_dict, prefix_hide, <<>>, <<>>)[2]
  /\ set_transaction_queue = None
  /\ partial_cache = [k \in {} |-> FALSE]
  /\ \E ready \in {0, 1} :
       store = [a \in {lower(DriverNodes[i].key) : i \in 1..Len(DriverNodes)} |->
                  IF a = node_to_raw_path(NodeDescriptors) THEN <<"json", <<>>>>
                  ELSE IF a = node_to_raw_path(NodeReady) THEN IntV(ready)
                  ELSE IntV(0)]
  /\ depth = 0
  /\ last = [op |-> "init", arg |-> None, out |-> Return(None), calls |-> <<>>]
  /\ scope_writes = 0
  /\ issued = <<>>
  /\ plain = FALSE
  /\ now = 0
  /\ wait = Idle
  /\ connection = caps
  /\ daq_server = [hf2 |-> FALSE, connected |-> <<>>]
  /\ devices = <<>>
  /\ created = 0
  /\ handed = [k \in {} |-> 0]
  /\ accepted = {}
  /\ awg_module \in [compiler : CompilerStatuses, progress : Progresses, elf : ElfStatuses]
  /\ load = Idle

\* what a step of load_sequencer_program leaves alone
LoadFrame ==
  UNCHANGED <<connection, daq_server, devices, created, handed, accepted, awg_module,
              wait, prefix_hide, prefixes_keep, first_layer, flat_dict,
              set_transaction_queue, store, depth, scope_writes, issued, plain>>

\* the call ends with `out`
LoadReturn(out) ==
  /\ load' = Idle
  /\ last' = [op |-> "load", arg |-> IntV(load.timeout), out |-> out,
              elapsed |-> now - load.start, compiler_status |-> load.compiler_status,
              progress |-> load.progress, elf |-> load.elf, ready |-> load.ready,
              slept |-> load.slept]

\* awg.load_sequencer_program(program, timeout) up to start = time.time():
\* the module is set up, the program is given to the compiler and its status
\* is read
LoadCall(timeout) ==
  /\ load.pc = "idle"
  /\ now + timeout <= MaxTime
  /\ load' = [pc |-> "compile", timeout |-> timeout, start |-> now,
              compiler_status |-> awg_module.compiler, progress |-> None,
              elf |-> None, ready |-> None, slept |-> 0]
  /\ last' = [op |-> "loading", arg |-> IntV(timeout), out |-> Return(None), calls |-> <<>>]
  /\ UNCHANGED <<now, partial_cache>>
  /\ LoadFrame

\* while compiler_status == -1: TimeoutError or sleep; after the loop
\* RuntimeError on status 1, else progress = awg.progress()
LoadCompiled ==
  /\ load.pc = "compile"
  /\ IF load.compiler_status = -1
       THEN IF load_timed_out(now, load.start, load.timeout)
              THEN LoadReturn(Raise("TimeoutError", "Program compilation timed out"))
              ELSE load' = [load EXCEPT !.pc = "compile_sleep"] /\ UNCHANGED last
     ELSE IF load.compiler_status = 1
       THEN LoadReturn(Raise("RuntimeError", "Error during sequencer compilation"))
     ELSE load' = [load EXCEPT !.pc = "upload", !.progress = IntV(awg_module.progress)]
          /\ UNCHANGED last
  /\ UNCHANGED <<now, partial_cache>>
  /\ LoadFrame

\* time.sleep(0.1) in one of the two loops, then the read that ends the body
\* of the loop
LoadSleep ==
  /\ load.pc \in {"compile_sleep", "upload_sleep"}
  /\ \E d \in 1..(MaxTime - now) : now' = now + d
  /\ load' = IF load.pc = "compile_sleep"
               THEN [load EXCEPT !.pc = "compile", !.slept = 1,
                                 !.compiler_status = awg_module.compiler]
               ELSE [load EXCEPT !.pc = "upload", !.slept = 1,
                                 !.progress = IntV(awg_module.progress)]
  /\ UNCHANGED <<last, partial_cache>>
  /\ LoadFrame

\* progress < 1.0 and awg.elf.status() == 2 in the test of the upload loop:
\* self.ready() is read next if both hold, the loop ends otherwise
LoadUploading ==
  /\ load.pc = "upload"
  /\ load' = IF ~progress_below_one(load.progress[2])
               THEN [load EXCEPT !.pc = "check"]
             ELSE IF awg_module.elf # 2
               THEN [load EXCEPT !.pc = "check", !.elf = IntV(awg_module.elf)]
             ELSE [load EXCEPT !.pc = "upload_ready", !.elf = IntV(awg_module.elf)]
  /\ UNCHANGED <<last, now, partial_cache>>
  /\ LoadFrame

\* awg.elf.status() == 0 after the loop: self.ready() is read next if it holds
LoadChecked ==
  /\ load.pc = "check"
  /\ IF awg_module.elf = 0
       THEN load' = [load EXCEPT !.pc = "check_ready", !.elf = IntV(awg_module.elf)]
            /\ UNCHANGED last
       ELSE /\ load' = Idle
            /\ last' = [op |-> "load", arg |-> IntV(load.timeout),
                        out |-> Raise("RuntimeError", "Error during upload of ELF file"),
                        elapsed |-> now - load.start,
                        compiler_status |-> load.compiler_status,
                        progress |-> load.progress, elf |-> IntV(awg_module.elf),
                        ready |-> None, slept |-> load.slept]
  /\ UNCHANGED <<now, partial_cache>>
  /\ LoadFrame

\* self.ready() == 0 in the test of the upload loop, then TimeoutError or
\* sleep in its body
load_upload_ready(r) ==
  IF r.out.exc # "none" THEN LoadReturn(r.out)
  ELSE IF ~py_eq(r.out.val, IntV(0))
    THEN load' = [load EXCEPT !.pc = "check", !.ready = r.out.val] /\ UNCHANGED last
  ELSE IF load_timed_out(now, load.start, load.timeout)
    THEN /\ load' = Idle
         /\ last' = [op |-> "load", arg |-> IntV(load.timeout),
                     out |-> Raise("TimeoutError", "Program upload timed out"),
                     elapsed |-> now - load.start,
                     compiler_status |-> load.compiler_status,
                     progress |-> load.progress, elf |-> load.elf,
                     ready |-> r.out.val, slept |-> load.slept]
  ELSE load' = [load EXCEPT !.pc = "upload_sleep", !.ready = r.out.val] /\ UNCHANGED last

\* self.ready() after the loop: the call returns if it is true, RuntimeError
\* otherwise
load_check_ready(r) ==
  /\ load' = Idle
  /\ last' = [op |-> "load", arg |-> IntV(load.timeout),
              out |-> IF r.out.exc # "none" THEN r.out
                      ELSE IF py_not(r.out.val)
                        THEN Raise("RuntimeError", "Error during upload of ELF file")
                      ELSE Return(None),
              elapsed |-> now - load.start, compiler_status |-> load.compiler_status,
              progress |-> load.progress, elf |-> load.elf,
              ready |-> IF r.out.exc # "none" THEN None ELSE r.out.val,
              slept |-> load.slept]

\* self.ready() has given `r`
LoadReadyGot(r) ==
  /\ load.pc \in {"upload_ready", "check_ready"}
  /\ partial_cache' = r.cache
  /\ IF load.pc = "upload_ready" THEN load_upload_ready(r) ELSE load_check_ready(r)
  /\ UNCHANGED now
  /\ LoadFrame

\* self.ready() is called
LoadReady ==
  /\ load.pc \in {"upload_ready", "check_ready"}
  /\ \E r \in {Node_get(NodeReady, FALSE, TRUE, TRUE, None)} : LoadReadyGot(r)

\* self.ready() answers: the ready node of the device reads 0 or 1
LoadReadyAnswers ==
  \E value \in {IntV(0), IntV(1)} :
    LoadReadyGot([out |-> Return(value), cache |-> partial_cache])

\* the next statement of the call, a read of the device being answered
LoadStep ==
  LoadCompiled \/ LoadSleep \/ LoadUploading \/ LoadChecked \/ LoadReadyAnswers

\* time passes while the call is between two statements or in a read
LoadTick ==
  /\ load.pc \in {"compile", "upload", "check", "upload_ready", "check_ready"}
  /\ now < MaxTime
  /\ now' = now + 1
  /\ UNCHANGED <<load, last, partial_cache>>
  /\ LoadFrame

\* the AWG module goes on compiling and uploading: one of its nodes changes
ModuleChange(node, value) ==
  /\ load.pc # "idle"
  /\ awg_module[node] # value
  /\ awg_module' = [awg_module EXCEPT ![node] = value]
  /\ UNCHANGED <<connection, daq_server, devices, created, handed, accepted, load,
                 wait, prefix_hide, prefixes_keep, first_layer, flat_dict,
                 set_transaction_queue, store, depth, scope_writes, issued, plain,
                 last, now, partial_cache>>

\* the device changes the ready node of the AWG core
ReadyChange(value) ==
  /\ load.pc # "idle"
  /\ store[node_to_raw_path(NodeReady)] # value
  /\ store' = [store EXCEPT ![node_to_raw_path(NodeReady)] = value]
  /\ UNCHANGED <<env, prefix_hide, prefixes_keep, first_layer, flat_dict,
                 set_transaction_queue, partial_cache, depth, last,
                 scope_writes, issued, plain, now, wait>>

\* the timeouts of the callers, in sleep intervals
LoadTimeouts == {0, 2}

NextLoad ==
  \/ \E timeout \in LoadTimeouts : LoadCall(timeout)
  \/ LoadCompiled
  \/ LoadSleep
  \/ LoadUploading
  \/ LoadChecked
  \/ LoadReady
  \/ LoadTick
  \/ \E value \in CompilerStatuses : ModuleChange("compiler", value)
  \/ \E value \in Progresses : ModuleChange("progress", value)
  \/ \E value \in ElfStatuses : ModuleChange("elf", value)
  \/ \E value \in {IntV(0), IntV(1)} : ReadyChange(value)

\* the interpreter goes on with the call: a statement that can be executed
\* is executed, and a read of the device is answered
SpecLoad == InitLoad /\ [][NextLoad]_vars /\ WF_vars(LoadStep)

\* the upload was still running at the last readings of the call
upload_running(l) ==
  /\ progress_below_one(l.progress[2])
  /\ l.elf = IntV(2)
  /\ py_eq(l.ready, IntV(0))

\* C28 for a call that has ended: a normal return has seen compiler status 0
\* or 2, ELF status 0 and ready nonzero after the upload loop; compiler
\* status 1 and a failed check after the loop give RuntimeError; TimeoutError
\* comes only when the timeout has passed since the start of the compilation
\* with the compilation or the upload still running
load_outcome ==
  last.op = "load" =>
    /\ last.out.exc \in {"none", "RuntimeError", "TimeoutError"}
    /\ last.out.exc = "none" =>
         /\ last.compiler_status \in {0, 2}
         /\ last.elf = IntV(0)
         /\ last.ready # None /\ ~py_not(last.ready)
    /\ last.compiler_status = 1 => last.out.exc = "RuntimeError"
    /\ last.out.exc = "RuntimeError" =>
         \/ last.compiler_status = 1
         \/ /\ last.compiler_status \in {0, 2}
            /\ last.elf # IntV(0) \/ (last.ready # None /\ py_not(last.ready))
    /\ last.out.exc = "TimeoutError" =>
         /\ last.elapsed >= last.arg[2]
         /\ last.compiler_status = -1
            \/ (last.compiler_status \in {0, 2} /\ upload_running(last))

\* C28 for a call in progress: it sleeps in one of its loops only while the
\* timeout has not passed since the start of the compilation
load_sleeps_in_time ==
  load.pc \in {"compile_sleep", "upload_sleep"} => now - load.start < load.timeout

CodecNodes ==
  << [key |-> Path(<< <<"D">>, <<"A">> >>), info |-> VirtualInfo],
     [key |-> Path(<< <<"D">>, <<"M">> >>),
      info |-> [Node |-> Path(<< <<"D">>, <<"M">> >>), Type |-> "Integer (enumerated)",
                Properties |-> {"Read", "Write", "Setting"}, Options |-> OptionsOnOff,
                GetParser |-> "other_label", SetParser |-> "other_label"]],
     [key |-> Path(<< <<"D">>, <<"V">> >>),
      info |-> [Node |-> Path(<< <<"D">>, <<"V">> >>), Type |-> "ZIVectorData",
                Properties |-> {"Read", "Write"}]],
     [key |-> Path(<< <<"D">>, <<"S">> >>),
      info |-> [Node |-> Path(<< <<"D">>, <<"S">> >>), Type |-> "ZIDemodSample",
                Properties |-> {"Read"}]],
     [key |-> Path(<< <<"D">>, <<"O">> >>),
      info |-> [Node |-> Path(<< <<"D">>, <<"O">> >>), Type |-> "ZIDIOSample",
                Properties |-> {"Read"}]],
     [key |-> Path(<< <<"D">>, <<"P">> >>),
      info |-> [Node |-> Path(<< <<"D">>, <<"P">> >>), Type |-> "ZIPWAWave",
                Properties |-> {"Read"}]] >>

NodeS == << <<"s">> >>

NodeO == << <<"o">> >>

NodeP == << <<"p">> >>

LabelOn == <<"o", "n">>

LabelOff == <<"o", "f", "f">>

LabelHi == <<"h", "i">>

\* the transports a NodeTree is given: one with every operation, one without
\* the accessors of the sample types
SampleConnections == {caps, caps \ {"getSample", "getDIO"}}

\* NodeTree.__init__ over the listing of that device and one of the transports
InitCodec ==
  \E nodes \in {CodecNodes}, conn \in SampleConnections :
    /\ prefix_hide = lower(<<"D">>)
    /\ flat_dict = [i \in 1..Len(nodes) |->
                      [key |-> lower(nodes[i].key), info |-> nodes[i].info]]
    /\ first_layer = generate_first_layer(flat_dict, prefix_hide, <<>>, <<>>)[1]
    /\ prefixes_keep = generate_first_layer(flat_dict, prefix_hide, <<>>, <<>>)[2]
    /\ set_transaction_queue = None
    /\ partial_cache = [k \in {} |-> FALSE]
    /\ store = [a \in {lower(nodes[i].key) : i \in 1..Len(nodes)} |-> IntV(0)]
    /\ depth = 0
    /\ last = [op |-> "init", arg |-> None, out |-> Return(None), calls |-> <<>>]
    /\ scope_writes = 0
    /\ issued = <<>>
    /\ plain = FALSE
    /\ now = 0
    /\ wait = Idle
    /\ connection = conn
    /\ NoSession

\* node(deep=, enum=, parse=) : Node.__call__ without a value
Call_get(c) ==
  \E r \in {Node_get(c.tree, c.deep, c.enum, c.parse, c.ts)} :
     /\ last' = [op |-> "get", arg |-> c, out |-> r.out, calls |-> r.calls]
     /\ partial_cache' = r.cache
     /\ UNCHANGED <<env, now, wait, prefix_hide, prefixes_keep, first_layer, flat_dict,
                    set_transaction_queue, store, depth, issued, plain, scope_writes>>

\* node(value, enum=, parse=) : Node.__call__ with a value
Call_set(c) ==
  \E r \in {Node_set(set_transaction_queue, store, c.tree, c.value,
                    FALSE, c.enum, c.parse, FALSE, MaxRecursion)} :
     /\ last' = [op |-> "set", arg |-> c, out |-> r.out, calls |-> r.calls]
     /\ set_transaction_queue' = r.queue
     /\ store' = r.store
     /\ UNCHANGED <<env, now, wait, prefix_hide, prefixes_keep, first_layer, flat_dict,
                    partial_cache, depth, issued, plain, scope_writes>>

\* the timestamps a transport answers a deep read with: None on a HF2
Timestamps == {None, IntV(0), IntV(7)}

CodecGetCalls ==
  [tree : {NodeA, NodeM}, deep : BOOLEAN, enum : BOOLEAN, parse : BOOLEAN,
   ts : {IntV(7)}]
    \cup [tree : {NodeM, NodeV}, deep : BOOLEAN, enum : {TRUE}, parse : {TRUE},
          ts : Timestamps]
    \cup [tree : {NodeS, NodeO, NodeP}, deep : {FALSE}, enum : {TRUE}, parse : {TRUE},
          ts : {IntV(7)}]

CodecSetCalls ==
  [tree : {NodeM}, value : {StrV(LabelOn), StrV(LabelOff), StrV(LabelHi), IntV(2)},
   enum : BOOLEAN, parse : BOOLEAN]
    \cup [tree : {NodeA}, value : {IntV(1)}, enum : {TRUE}, parse : BOOLEAN]

NextCodec ==
  \/ \E c \in CodecGetCalls : Call_get(c)
  \/ \E c \in CodecSetCalls : Call_set(c)

SpecCodec == InitCodec /\ [][NextCodec]_vars

\* the descriptor the mapping holds for the Node `tree` of the device
descriptor_of(tree) ==
  LET key == <<Slash>> \o prefix_hide \o <<Slash>> \o join(tree)
      at == {i \in 1..Len(flat_dict) : flat_dict[i].key = key}
  IN IF at = {} THEN None ELSE flat_dict[CHOOSE i \in at : TRUE].info

\* the codes of the labels of the options "off" and "on"
label_code(label) ==
  IF label = LabelOff THEN 0 ELSE IF label = LabelOn THEN 1 ELSE -1

\* the first label of a code of the options "off" and "on"
code_label(code) ==
  IF code = 0 THEN LabelOff ELSE IF code = 1 THEN LabelOn ELSE <<>>

\* the value a set is to hand to the transport: the parser first, the
\* encoding on its result
value_to_write(info, c) ==
  LET parsed == IF c.parse /\ "SetParser" \in DOMAIN info
                  THEN apply_parser(info["SetParser"], c.value) ELSE c.value
  IN IF c.enum /\ "Options" \in DOMAIN info /\ parsed[1] = "s"
        /\ label_code(parsed[2]) >= 0
       THEN IntV(label_code(parsed[2])) ELSE parsed

\* the value a get is to return for the stored value: the decoding first,
\* the parser on its result
value_to_return(info, c, stored) ==
  LET decoded == IF c.enum /\ "Options" \in DOMAIN info /\ stored[1] = "i"
                    /\ code_label(stored[2]) # <<>>
                   THEN StrV(code_label(stored[2])) ELSE stored
  IN IF c.parse /\ "GetParser" \in DOMAIN info
       THEN apply_parser(info["GetParser"], decoded) ELSE decoded

\* the value of what a get returned, without the timestamp
returned_value(val) == IF val[1] = "tuple" THEN val[3] ELSE val

\* C31: a set hands the transport the set-parser's result, encoded (a label the
\* options do not have is handed over as it is, the label of the code 0 as 0); a
\* get returns the get-parser's result of the decoded value (a code without a
\* label undecoded); parse=False and enum=False skip their step.
C31_ParseAndEnumOrder ==
  /\ (last.op = "set" /\ last.out.exc = "none") =>
       /\ Len(last.calls) = 1
       /\ last.calls[1].value = value_to_write(descriptor_of(last.arg.tree), last.arg)
  /\ (last.op = "get" /\ last.out.exc = "none"
        /\ last.arg.tree \in {NodeA, NodeM}) =>
       returned_value(last.out.val)
         = value_to_return(descriptor_of(last.arg.tree), last.arg,
                           store[lower(descriptor_of(last.arg.tree).Node)])

\* a set of "on" with both steps has handed the transport 0, the code of the
\* label the parser made of it
C31_Witness ==
  /\ last.op = "set" /\ last.out.exc = "none" /\ last.arg.tree = NodeM
  /\ last.arg.enum /\ last.arg.parse /\ last.arg.value = StrV(LabelOn)
  /\ "SetParser" \in DOMAIN descriptor_of(NodeM)
  /\ last.calls[1].value = IntV(0)
  /\ store[Path(<< <<"d">>, <<"m">> >>)] = IntV(0)

\* a get that resolved a readable leaf and returned
get_returned == last.op = "get" /\ last.out.exc = "none"

\* C32: a get returns the pair (timestamp, value) whenever the read was a deep
\* read or the read of a vector node and the transport supplied a timestamp,
\* whatever its value, and the bare value otherwise.
C32_TimestampPair ==
  get_returned =>
    IF (last.arg.deep \/ descriptor_of(last.arg.tree).Type = "ZIVectorData")
         /\ last.arg.ts[1] # "None"
      THEN last.out.val[1] = "tuple" /\ last.out.val[2] = last.arg.ts
      ELSE last.out.val[1] # "tuple"

\* C33: a get that is not deep, of a readable node whose type has no scalar
\* accessor (a streaming type, or a sample type on a transport without its
\* accessor), fails with the error "can only be polled", which is not the
\* error of a node that is not readable, and reads nothing from the transport.
C33_UnsupportedTypeError ==
  (last.op = "get" /\ ~last.arg.deep
     /\ \/ last.arg.tree = NodeP
        \/ last.arg.tree = NodeS /\ "getSample" \notin connection
        \/ last.arg.tree = NodeO /\ "getDIO" \notin connection) =>
    /\ last.out.exc = "RuntimeError"
    /\ last.out.arg = "can only be polled"
    /\ last.calls = <<>>

\* ------------------------------------------------- letter case of a path

\* a device with a leaf A, a leaf Y below the branch X and a leaf below a
\* branch whose name is a reserved word
CaseNodes ==
  << Leaf(<< <<"D">>, <<"A">> >>),
     Leaf(<< <<"D">>, <<"X">>, <<"Y">> >>),
     Leaf(<< <<"D">>, <<"I", "N">>, <<"0">> >>),
     Leaf(<< <<"Z">>, <<"V">> >>) >>

\* NodeTree.__init__ with prefix_hide "D" over the listing of that device
InitCase ==
  /\ prefix_hide = lower(<<"D">>)
  /\ flat_dict = [i \in 1..Len(CaseNodes) |->
                    [key |-> lower(CaseNodes[i].key), info |-> CaseNodes[i].info]]
  /\ first_layer = generate_first_layer(flat_dict, prefix_hide, <<>>, <<>>)[1]
  /\ prefixes_keep = generate_first_layer(flat_dict, prefix_hide, <<>>, <<>>)[2]
  /\ set_transaction_queue = None
  /\ partial_cache = [k \in {} |-> FALSE]
  /\ store = [a \in {lower(CaseNodes[i].key) : i \in 1..Len(CaseNodes)} |-> IntV(0)]
  /\ depth = 0
  /\ last = [op |-> "init", arg |-> None, out |-> Return(None), calls |-> <<>>]
  /\ scope_writes = 0
  /\ issued = <<>>
  /\ plain = FALSE
  /\ now = 0
  /\ wait = Idle
  /\ EnvInit

RECURSIVE chain_attr(_, _)
\* n.s1.s2... : Node.__getattr__ for each further segment
chain_attr(n, segments) ==
  IF segments = <<>> THEN n
  ELSE chain_attr(Node_getattr(n, Head(segments)).out.val[2], Tail(segments))

RECURSIVE chain_item(_, _)
\* n[s1][s2]... : Node.__getitem__ for each further segment
chain_item(n, segments) ==
  IF segments = <<>> THEN n
  ELSE chain_item(Node_getitem(n, Head(segments)), Tail(segments))

\* the Node a caller builds from the segments as written: tree.s1.s2,
\* tree[s1][s2] or tree["s1/s2"]
node_written(how, segments) ==
  IF how = "attr"
    THEN chain_attr(NodeTree_getattr("tree", Head(segments)), Tail(segments))
  ELSE IF how = "item"
    THEN chain_item(NodeTree_getitem("tree", Head(segments)), Tail(segments))
  ELSE NodeTree_getitem("tree", join(segments))

\* the descriptor of the Node built from the segments as written, and that of
\* the Node built from their lower-case form
Address(how, segments) ==
  /\ last' = [op |-> "address", arg |-> [how |-> how, segments |-> segments],
              out |-> get_node_info(node_written(how, segments).tree),
              lowered |-> get_node_info(
                            node_written(how, [i \in 1..Len(segments) |->
                                                 lower(segments[i])]).tree),
              calls |-> <<>>]
  /\ NodeFrame

\* the paths a caller writes
CasePaths ==
  { << <<"a">> >>, << <<"A">> >>, << <<"x">>, <<"y">> >>, << <<"X">>, <<"y">> >>,
    << <<"x">>, <<"Y">> >>, << <<"X">>, <<"Y">> >> }

\* what update_node adds to a descriptor
UnitPatch == [Unit |-> "s"]

\* update_node with a string or a Node, written in lower or in upper case
CaseUpdateCalls ==
  [node : { <<"str", <<"a">>>>, <<"str", <<"A">>>>,
            <<"str", <<Slash, "D", Slash, "A">>>>,
            <<"node", node_written("attr", << <<"X">>, <<"Y">> >>).tree>>,
            <<"node", node_written("path", << <<"X">>, <<"Y">> >>).tree>> },
   updates : {UnitPatch}, add : BOOLEAN]

NextCase ==
  \/ \E how \in {"attr", "item", "path"}, p \in CasePaths : Address(how, p)
  \/ \E c \in CaseUpdateCalls : UpdateNode(c)

SpecCase == InitCase /\ [][NextCase]_vars

\* the key of the descriptor a string or a Node addresses, in lower case
lowered_key(node) ==
  lower(IF node[1] = "node" THEN node_to_raw_path(node[2])
        ELSE string_to_raw_path(node[2]).val)

\* C34: every key of the mapping is in lower case, after construction and
\* after every update_node; a path written in any letter case, by attributes,
\* by items or to update_node, addresses the descriptor its lower-case form
\* addresses.
C34_CaseInsensitiveAddressing ==
  /\ \A i \in 1..Len(flat_dict) : flat_dict[i].key = lower(flat_dict[i].key)
  /\ last.op = "address" => last.out = last.lowered
  /\ last.op = "update_node" =>
       /\ last.out.exc = "none"
       /\ "Unit" \in DOMAIN dict_get(flat_dict, lowered_key(last.arg.node))

\* -------------------------------------------- memoized results of a Node

Name_is_partial_node ==
  <<"i", "s", "_", "p", "a", "r", "t", "i", "a", "l", "_", "n", "o", "d", "e">>

\* update_node that adds a leaf below the paths Q and A, by a string
MemoUpdateCalls ==
  [node : { <<"str", <<"q", Slash, "r">>>>, <<"str", <<"a", Slash, "b">>>> },
   updates : {Leaf(<< <<"D">>, <<"Q">>, <<"R">> >>).info}, add : {TRUE}]

\* tree["in"]: the reserved word as the device spells it
NodeIn == << <<"i", "n">> >>

\* tree.in_: the reserved word with its marker
NodeInEscaped == << <<"i", "n", "_">> >>

\* the Nodes a caller builds anew for every use: tree.q, tree.a, tree.x,
\* tree["in"], tree.in_
MemoNodes == {NodeQ, NodeA, NodeX, NodeIn, NodeInEscaped}

NextMemo ==
  \/ \E c \in MemoUpdateCalls : UpdateNode(c)
  \/ \E tree \in MemoNodes : Access(NodeOf("tree", tree), "attr", Name_is_partial_node)
  \/ \E c \in [tree : MemoNodes, deep : {FALSE}, ts : {IntV(7)}] : Get(c)

SpecMemo == InitCase /\ [][NextMemo]_vars

\* C35: a memoized result belongs to one Node instance: the Node a caller
\* builds after update_node has added or patched a descriptor computes its
\* partial-node flag from the mapping as it is then, also when an equal Node
\* had computed and memoized the flag before the patch.
C35_MemoDiesWithInstance ==
  (last.op = "access" /\ last.arg.name = Name_is_partial_node) =>
    last.out.val[2] = is_partial_node_scan(last.arg.node.tree)


\* some path of the mapping has segments that extend those of the Node,
\* segment by segment, compared as Node equality compares them
extended_in_mapping(tree) ==
  \E i \in 1..Len(flat_dict) :
    LET child == raw_path_to_node(flat_dict[i].key)
    IN /\ Len(child) > Len(tree)
       /\ \A j \in 1..Len(tree) : rstrip(tree[j]) = rstrip(child[j])

\* C36: is_partial_node is true exactly if a path of the mapping extends the
\* segments of the Node, compared as Node equality compares them; so a Node
\* with a reserved word written with or without its marker has the same flag
\* and a get of it falls back to the read of its children in the same way.
C36_PartialIgnoresMarker ==
  /\ (last.op = "access" /\ last.arg.name = Name_is_partial_node
        /\ last.arg.node.tree \in {NodeIn, NodeInEscaped}) =>
       last.out.val[2] = extended_in_mapping(last.arg.node.tree)
  /\ (last.op = "get" /\ last.arg.tree \in {NodeIn, NodeInEscaped}) =>
       (last.out.exc = "KeyError") = ~extended_in_mapping(last.arg.tree)


\* ------------------------------------------ gets while a transaction is open

\* C37: a get issued while a transaction is open is executed at once: it reads
\* the transport, returns the value the transport holds then and not one that
\* is pending in the buffer, writes nothing, and leaves the buffer as it was.
C37_GetBypassesTransaction ==
  [][(last'.op = "get" /\ set_transaction_queue # None) =>
       /\ set_transaction_queue' = set_transaction_queue
       /\ store' = store
       /\ writes_of(last'.calls) = <<>>
       /\ last'.out.exc = "none" =>
            /\ Len(last'.calls) = 1
            /\ last'.out.val = store[Path(<< <<"d">> >> \o last'.arg.tree)]]_vars

\* inside a transaction that holds a set of 1 for the node A, a get of A has
\* read the 0 the transport holds
C37_Witness ==
  /\ last.op = "get"
  /\ last.arg.tree = NodeA
  /\ set_transaction_queue # None
  /\ Len(set_transaction_queue[2]) >= 1
  /\ set_transaction_queue[2][1] = <<"node", NodeA, IntV(1)>>
  /\ store[Path(<< <<"d">>, <<"a">> >>)] = IntV(0)
  /\ last.out = Return(IntV(0))
  /\ Len(last.calls) = 1

\* --------------------------------------------- strings and Nodes as paths

\* a device all of whose paths lie below the hidden prefix
HiddenOnlyNodes ==
  << Leaf(<< <<"D">>, <<"A">> >>),
     Leaf(<< <<"D">>, <<"I", "N">>, <<"0">> >>),
     Leaf(<< <<"D">>, <<"Z", "V">> >>) >>

StringRegistries ==
  { [hide |-> <<"D">>, nodes |-> DeviceNodes],
    [hide |-> <<"D">>, nodes |-> HiddenOnlyNodes],
    [hide |-> None, nodes |-> DeviceNodes] }

\* NodeTree.__init__ for the arguments r
InitString ==
  \E r \in StringRegistries :
    /\ prefix_hide = IF r.hide = None THEN None ELSE lower(r.hide)
    /\ flat_dict = [i \in 1..Len(r.nodes) |->
                      [key |-> lower(r.nodes[i].key), info |-> r.nodes[i].info]]
    /\ first_layer = generate_first_layer(flat_dict, prefix_hide, <<>>, <<>>)[1]
    /\ prefixes_keep = generate_first_layer(flat_dict, prefix_hide, <<>>, <<>>)[2]
    /\ set_transaction_queue = None
    /\ partial_cache = [k \in {} |-> FALSE]
    /\ store = [a \in {lower(r.nodes[i].key) : i \in 1..Len(r.nodes)} |-> IntV(0)]
    /\ depth = 0
    /\ last = [op |-> "init", arg |-> None, out |-> Return(None), calls |-> <<>>]
    /\ scope_writes = 0
    /\ issued = <<>>
    /\ plain = FALSE
    /\ now = 0
    /\ wait = Idle
    /\ EnvInit

\* root.string_to_raw_path(s) and root.node_to_raw_path(root[s])
StringAddress(s) ==
  /\ last' = [op |-> "string_address", arg |-> s,
              out |-> string_to_raw_path(s),
              node |-> IF node_to_raw_path_raises(NodeTree_getitem("tree", s).tree)
                         THEN Raise("TypeError", NodeTree_getitem("tree", s).tree)
                         ELSE Return(node_to_raw_path(NodeTree_getitem("tree", s).tree)),
              calls |-> <<>>]
  /\ NodeFrame

\* the relative paths a caller writes as strings
RelativeStrings ==
  { <<"a">>, <<"i", "n", Slash, "0">>, <<"i", "n", "_", Slash, "0">>,
    <<"z", Slash, "v">>, <<"z", "v">>, <<"d", Slash, "a">>, <<"x", Slash, "0">> }

\* update_node given the string, and given the Node of the string
UpdatedStrings == { <<"a">>, <<"z", "v">>, <<"i", "n", "_", Slash, "0">> }

StringUpdateCalls ==
  [node : {<<"str", s>> : s \in UpdatedStrings}
            \cup {<<"node", NodeTree_getitem("tree", s).tree>> : s \in UpdatedStrings},
   updates : {UnitPatch}, add : BOOLEAN]

NextString ==
  \/ \E s \in RelativeStrings : StringAddress(s)
  \/ \E c \in StringUpdateCalls : UpdateNode(c)

SpecString == InitString /\ [][NextString]_vars

\* the string starts with the hidden prefix
starts_hidden(s) == prefix_hide # None /\ startswith(s, prefix_hide)

\* C38: for every relative path string s, string_to_raw_path(s) is
\* node_to_raw_path(tree[s]); a relative string that starts with the hidden
\* prefix is rejected with ValueError, on every registry.
C38_StringAndNodeAgree ==
  last.op = "string_address" =>
    IF starts_hidden(last.arg) THEN last.out.exc = "ValueError"
    ELSE last.out.exc = "none" /\ last.out = last.node

====
